---- MODULE Spec2Model ----
(***************************************************************************)
(* Model of the EHCP document pipeline: the feedback parser                *)
(* (parse_feedback_and_count_issues), the blob helpers, the merge of the   *)
(* sectional outputs (merge_output_files_async) and the per-section        *)
(* create / validate / correct loop that consumes them.                    *)
(*                                                                         *)
(* Texts are sequences of lexical tokens; each token stands for a run of   *)
(* characters of one class:                                                *)
(*   "WS"        one or more whitespace characters                         *)
(*   ":"         a colon                                                   *)
(*   "START"     the marker [FEEDBACK_SUMMARY]                             *)
(*   "END"       the marker [END_FEEDBACK_SUMMARY]                         *)
(*   "ERROR", "critical", "STANDARD"   words made of letters               *)
(*   "0" .. "9"  decimal digits                                            *)
(*   "HUGE"      a run of more than 4300 digits (int() raises ValueError)  *)
(* Adjacent word or digit tokens form one longer word, as characters do.   *)
(***************************************************************************)
EXTENDS Integers, Sequences, FiniteSets, TLC

VARIABLES
    feedback_content,   \* argument of parse_feedback_and_count_issues
    counts,             \* its return value
    parsePc,            \* "call" before the call, "return" after it
    state,              \* per section: state of the section pipeline
    iteration,          \* per section: number of the current iteration
    rounds,             \* per section: correction rounds run so far
    feedback,           \* per section: report of the latest validation
    summary,            \* per section: parsed summary of that report
    task,               \* per section: the prompt last given to the writer
    store,              \* the output container: blob name -> content
    all_blobs,          \* merge: the listing of the output container
    latest_iterations,  \* merge: section number -> <<blob name, iteration>>
    completed,          \* merge: the retrievals finished so far, in completion order
    full_content,       \* merge: the gathered contents, in merge order
    mergePc,            \* merge: "idle", "gather", "upload", "done"
    mergeResult,        \* merge: the value returned ("none" before it)
    element,            \* argument of _is_element_in_regions
    all_table_regions,  \* argument of _is_element_in_regions
    in_regions,         \* its return value ("pending" before the call)
    result,             \* analyse_document_with_di: the analysis result
    all_elements,       \* the elements written to the output, in output order
    analysePc,          \* "idle", "call", "return", or "raised" (returns "")
    table,              \* argument of _format_table_as_markdown
    grid,               \* its grid: row index -> column index -> text
    formatPc,           \* "idle", "call", "return"
    pdf_blob_name,      \* router: the name of the file being routed
    AZURE_DI_MODEL_IDS, \* router: the configured <<keyword, model id>> items
    model_id_to_use,    \* router: the model id chosen
    routePc,            \* "idle", "call", "return"
    sources,            \* the container of source texts: blob name -> text
    exclude_files,      \* download_all_sources...: the files to leave out
    blob_names,         \* its listing of the container
    next_blob,          \* position in blob_names of the next loop iteration
    downloading,        \* positions whose download has started, not finished
    corpus,             \* its full_content
    sourcesPc,          \* "idle", "call", "loop", "done"
    io_op,              \* the blob helper a caller has called ("none" before)
    io_failed,          \* whether the store operation inside it failed
    io_return,          \* the value the helper returned
    io_raised,          \* whether the helper raised to its caller
    caller,             \* "idle", "calling", "continues", "aborted"
    writes,             \* (container, name) -> uploads a run has made to it
    pdf_blob_names,     \* preprocess: the listed PDF names
    next_pdf,           \* preprocess: index of the next name of the loop
    processed,          \* the container of processed texts
    prePc,              \* "idle", "call", "loop", "done", "failed"
    markdown,           \* the string _format_table_as_markdown returns
    source_docs,        \* archive: the source container, blob name -> data
    final_docs,         \* archive: the final document container
    archive,            \* archive: the archive container
    to_copy,            \* archive: the names of the listing still to copy
    archivePc           \* "idle", "list_source", "copy_source", ..., "done"

parseVars == <<feedback_content, counts, parsePc>>
pipeVars  == <<state, iteration, rounds, feedback, summary, task, writes>>
mergeVars == <<all_blobs, latest_iterations, completed, full_content, mergePc,
               mergeResult>>
geoVars == <<element, all_table_regions, in_regions>>
reconVars == <<result, all_elements, analysePc>>
tableVars == <<table, grid, markdown, formatPc>>
routeVars == <<pdf_blob_name, AZURE_DI_MODEL_IDS, model_id_to_use, routePc>>
sourceVars == <<sources, exclude_files, blob_names, next_blob, downloading,
                corpus, sourcesPc>>
preVars == <<pdf_blob_names, next_pdf, processed, prePc>>
ioVars == <<io_op, io_failed, io_return, io_raised, caller>>
archVars == <<source_docs, final_docs, archive, to_copy, archivePc>>
extVars == <<geoVars, reconVars, tableVars, routeVars, sourceVars, ioVars, preVars,
             archVars>>
vars == <<feedback_content, counts, parsePc, state, iteration, rounds,
          feedback, summary, task, writes, store, all_blobs, latest_iterations,
          completed, full_content, mergePc, mergeResult, extVars>>

----------------------------------------------------------------------------
(* Bounds of the model. *)

MaxItems == 2       \* items inside a summary region of an enumerated report
MaxRounds == 2      \* the round cap of a section pipeline
MaxBlobs == 3       \* blobs in the output container when merge is called
MaxRegions == 2     \* table regions given to _is_element_in_regions
MaxTables == 2      \* tables of an analysis result
MaxParagraphs == 2  \* paragraphs of an analysis result
MaxCells == 3       \* cells of a table given to _format_table_as_markdown
MaxName == 3        \* tokens of a file name given to the router
MaxSources == 3     \* blobs in the container of source texts

----------------------------------------------------------------------------
(* Character classes of the tokens (Python re: \w, \d, \s). *)

DecimalDigits == <<"0", "1", "2", "3", "4", "5", "6", "7", "8", "9">>

IsDigit(t) == t = "HUGE" \/ \E d \in 1..Len(DecimalDigits) : DecimalDigits[d] = t

IsWord(t) == t \in {"ERROR", "critical", "STANDARD"} \/ IsDigit(t)

IsSpace(t) == t = "WS"

\* str.lower() on a word token
lower(t) ==
    CASE t = "STANDARD" -> "standard"
      [] t = "ERROR"    -> "error"
      [] t = "A"        -> "a"
      [] t = "B"        -> "b"
      [] t = ".PDF"     -> ".pdf"
      [] OTHER          -> t

\* last index of the maximal run of \w tokens starting at i (i-1 when none)
RECURSIVE WordEnd(_, _)
WordEnd(s, i) ==
    IF i <= Len(s) /\ IsWord(s[i]) THEN WordEnd(s, i + 1) ELSE i - 1

\* last index of the maximal run of \d tokens starting at i (i-1 when none)
RECURSIVE DigitEnd(_, _)
DigitEnd(s, i) ==
    IF i <= Len(s) /\ IsDigit(s[i]) THEN DigitEnd(s, i + 1) ELSE i - 1

\* last index of the maximal run of \s tokens starting at i (i-1 when none)
RECURSIVE SpaceEnd(_, _)
SpaceEnd(s, i) ==
    IF i <= Len(s) /\ IsSpace(s[i]) THEN SpaceEnd(s, i + 1) ELSE i - 1

\* str.strip(): leading and trailing whitespace removed
RECURSIVE strip(_)
strip(s) ==
    IF s = <<>> THEN s
    ELSE IF IsSpace(s[1]) THEN strip(Tail(s))
    ELSE IF IsSpace(s[Len(s)]) THEN strip(SubSeq(s, 1, Len(s) - 1))
    ELSE s

\* str.startswith("ERROR:")
startswith_ERROR(s) == Len(s) >= 2 /\ s[1] = "ERROR" /\ s[2] = ":"

\* smallest index >= from holding token tok, 0 when there is none
RECURSIVE IndexFrom(_, _, _)
IndexFrom(s, tok, from) ==
    IF from > Len(s) THEN 0
    ELSE IF s[from] = tok THEN from
    ELSE IndexFrom(s, tok, from + 1)

NoMatch == [found |-> FALSE, group |-> <<>>]

\* summary_match with the end marker optional: the region runs to the end
\* of the text when no end marker follows
summary_match_open_end(s) ==
    LET a == IndexFrom(s, "START", 1)
        b == IF a = 0 THEN 0 ELSE IndexFrom(s, "END", a + 1)
    IN  IF a = 0 THEN NoMatch
        ELSE IF b = 0 THEN [found |-> TRUE, group |-> SubSeq(s, a + 1, Len(s))]
        ELSE [found |-> TRUE, group |-> SubSeq(s, a + 1, b - 1)]

\* re.search(r"\[FEEDBACK_SUMMARY\](.*?)\[END_FEEDBACK_SUMMARY\]", s, DOTALL):
\* the leftmost start marker that has an end marker after it, and the
\* shortest text up to an end marker
summary_match(s) ==
    LET a == IndexFrom(s, "START", 1)
        b == IF a = 0 THEN 0 ELSE IndexFrom(s, "END", a + 1)
    IN  IF a = 0 \/ b = 0 THEN NoMatch
        ELSE [found |-> TRUE, group |-> SubSeq(s, a + 1, b - 1)]

\* re.findall(r"(\w+):\s*(\d+)", s) scanning from index i: the pairs
\* <<key, value>> of the non-overlapping matches, left to right
RECURSIVE found_issues(_, _)
found_issues(s, i) ==
    IF i > Len(s) THEN <<>>
    ELSE LET j == WordEnd(s, i)
         IN  IF j < i \/ j + 1 > Len(s) \/ s[j + 1] # ":"
             THEN found_issues(s, i + 1)
             ELSE LET k == SpaceEnd(s, j + 2) + 1
                      m == DigitEnd(s, k)
                  IN  IF m < k THEN found_issues(s, i + 1)
                      ELSE <<[key |-> SubSeq(s, i, j), value |-> SubSeq(s, k, m)]>>
                           \o found_issues(s, m + 1)

\* key.strip().lower() in counts: the key is one of the two counted words
key_in_counts(key) ==
    Len(key) = 1 /\ lower(key[1]) \in {"critical", "standard"}

\* int(value) raises ValueError for more than 4300 digits
int_raises(value) == \E n \in 1..Len(value) : value[n] = "HUGE"

DigitValue(t) == (CHOOSE d \in 1..Len(DecimalDigits) : DecimalDigits[d] = t) - 1

\* int(value) for a run of decimal digits
RECURSIVE int(_)
int(value) ==
    IF value = <<>> THEN 0
    ELSE 10 * int(SubSeq(value, 1, Len(value) - 1)) + DigitValue(value[Len(value)])

\* the loop over found_issues: a counted key overwrites its count
RECURSIVE count_loop(_, _)
count_loop(found, acc) ==
    IF found = <<>> THEN acc
    ELSE LET pair == Head(found)
         IN  IF key_in_counts(pair.key)
             THEN count_loop(Tail(found),
                             [acc EXCEPT ![lower(pair.key[1])] = int(pair.value)])
             ELSE count_loop(Tail(found), acc)

\* the loop raises when int() raises on the value of a counted key
loop_raises(found) ==
    \E n \in 1..Len(found) :
        key_in_counts(found[n].key) /\ int_raises(found[n].value)

\* the dictionary returned for a missing, empty or ERROR: report
forced_retry == [critical |-> 99, major |-> 99, minor |-> 99]

default_counts == [critical |-> 0, standard |-> 0]

\* parse_feedback_and_count_issues testing startswith("ERROR:") on the
\* text as given, not on the stripped text
parse_feedback_without_strip(content) ==
    IF content = <<>> \/ startswith_ERROR(content)
    THEN forced_retry
    ELSE LET match == summary_match(content)
             found == found_issues(match.group, 1)
         IN  IF ~match.found THEN default_counts
             ELSE IF loop_raises(found) THEN default_counts
             ELSE count_loop(found, default_counts)

parse_feedback_and_count_issues(content) ==
    IF content = <<>> \/ startswith_ERROR(strip(content))
    THEN forced_retry
    ELSE LET match == summary_match(content)
             found == found_issues(match.group, 1)
         IN  IF ~match.found THEN default_counts
             ELSE IF loop_raises(found) THEN default_counts
             ELSE count_loop(found, default_counts)

----------------------------------------------------------------------------
(* Reports given to the parser: a prefix, then an optional summary region  *)
(* holding up to MaxItems items.                                           *)

Keys == {"critical", "STANDARD", "ERROR"}

Values == {"0", "3", "HUGE"}

Items ==
    {<<k, ":", v>> : k \in Keys, v \in Values}
    \cup {<<"critical", ":", "WS", "3">>, <<"critical", "WS", ":", "3">>,
          <<"WS">>, <<"3">>, <<"critical">>}

RECURSIVE ItemSeqs(_)
ItemSeqs(n) ==
    IF n = 0 THEN {<<>>}
    ELSE ItemSeqs(n - 1)
         \cup {b \o it : b \in ItemSeqs(n - 1), it \in Items}

Prefixes ==
    {<<>>, <<"WS">>, <<"ERROR", ":">>, <<"WS", "ERROR", ":">>,
     <<"ERROR">>, <<"3">>, <<"critical", ":", "3">>}

Bodies ==
    {<<>>}
    \cup {<<"START">> \o b \o <<"END">> : b \in ItemSeqs(MaxItems)}
    \cup {<<"START">> \o b : b \in ItemSeqs(MaxItems)}
    \cup {<<"END">> \o b \o <<"START">> : b \in ItemSeqs(MaxItems)}

Reports == {p \o b : p \in Prefixes, b \in Bodies}

NoCounts == [none |-> 0]

----------------------------------------------------------------------------
(* The output container and the blob helpers.  A container is a function   *)
(* from blob names to texts; a blob name is a token sequence such as       *)
(* <<"output_s", "1", "_i", "2", ".md">>.                                  *)

\* upload_blob_async with overwrite=True, when the upload succeeds; a
\* failing upload raises and leaves the container as it was
upload_blob_async(container, blob_name, data) ==
    [n \in DOMAIN container \cup {blob_name} |->
        IF n = blob_name THEN data ELSE container[n]]

\* download_blob_as_text_async: the text of the blob, "" when the download
\* fails (ok = FALSE) or the blob does not exist
download_blob_as_text_async(container, blob_name, ok) ==
    IF ok /\ blob_name \in DOMAIN container THEN container[blob_name] ELSE <<>>

\* the orders in which a set of blob names can be listed
RECURSIVE Orders(_)
Orders(S) ==
    IF S = {} THEN {<<>>}
    ELSE UNION {{<<n>> \o rest : rest \in Orders(S \ {n})} : n \in S}

\* list_blobs_async: the names of the container in the order the store
\* lists them, [] when the listing fails
list_blobs_async(container, ok) ==
    IF ok THEN Orders(DOMAIN container) ELSE {<<>>}

\* str(n) for n >= 0
RECURSIVE str(_)
str(n) ==
    IF n < 10 THEN <<DecimalDigits[n + 1]>>
    ELSE str(n \div 10) \o <<DecimalDigits[(n % 10) + 1]>>

\* f"output_s{section_number}_i{iteration_number}.md"
output_blob_name(section_number, iteration_number) ==
    <<"output_s">> \o str(section_number) \o <<"_i">> \o str(iteration_number) \o <<".md">>

\* f"feedback_s{section_number}_i{iteration_number}.md"
feedback_blob_name(section_number, iteration_number) ==
    <<"feedback_s">> \o str(section_number) \o <<"_i">> \o str(iteration_number) \o <<".md">>

FINAL_DOCUMENT_FILENAME == <<"final_document.md">>

OUTPUT_BLOB_CONTAINER == "output"

PROCESSED_BLOB_CONTAINER == "processed"

NoWrites == [k \in {} |-> 0]

\* the log of uploads after one more upload to (container_name, blob_name)
logged(log, container_name, blob_name) ==
    LET key == <<container_name, blob_name>>
    IN  [k \in DOMAIN log \cup {key} |->
            IF k = key THEN (IF k \in DOMAIN log THEN log[k] ELSE 0) + 1
            ELSE log[k]]

----------------------------------------------------------------------------
(* The section pipelines and the output container before a run starts.     *)

TOTAL_SECTIONS == 2

Sections == 1..TOTAL_SECTIONS

NoTask == [kind |-> "none", section_number |-> 0, previous_draft |-> <<>>,
           revision_request |-> <<>>, output_blob_name |-> <<>>]

PipeInit ==
    /\ state = [s \in Sections |-> "Drafting"]
    /\ iteration = [s \in Sections |-> 0]
    /\ rounds = [s \in Sections |-> 0]
    /\ feedback = [s \in Sections |-> <<>>]
    /\ summary = [s \in Sections |-> NoCounts]
    /\ task = [s \in Sections |-> NoTask]
    /\ writes = NoWrites

EmptyContainer == [n \in {} |-> <<>>]

MergeIdle ==
    /\ all_blobs = <<>>
    /\ latest_iterations = << >>
    /\ completed = <<>>
    /\ full_content = <<>>
    /\ mergePc = "idle"
    /\ mergeResult = "none"

ParseIdle ==
    /\ feedback_content = <<>>
    /\ counts = NoCounts
    /\ parsePc = "idle"

GeoIdle ==
    /\ element = [bounding_regions |-> <<>>]
    /\ all_table_regions = <<>>
    /\ in_regions = "pending"

NoResult == [documents |-> <<>>, tables |-> <<>>, paragraphs |-> <<>>]

ReconIdle ==
    /\ result = NoResult
    /\ all_elements = <<>>
    /\ analysePc = "idle"

NoGrid == [r \in {} |-> <<>>]

TableIdle ==
    /\ table = [row_count |-> 0, column_count |-> 0, cells |-> <<>>,
                bounding_regions |-> <<>>]
    /\ grid = NoGrid
    /\ markdown = <<>>
    /\ formatPc = "idle"

RouteIdle ==
    /\ pdf_blob_name = <<>>
    /\ AZURE_DI_MODEL_IDS = <<>>
    /\ model_id_to_use = <<>>
    /\ routePc = "idle"

SourcesIdle ==
    /\ sources = EmptyContainer
    /\ exclude_files = <<>>
    /\ blob_names = <<>>
    /\ next_blob = 1
    /\ downloading = {}
    /\ corpus = <<>>
    /\ sourcesPc = "idle"

NoReturn == [kind |-> "nothing"]

PreIdle ==
    /\ pdf_blob_names = <<>>
    /\ next_pdf = 0
    /\ processed = EmptyContainer
    /\ prePc = "idle"

ArchIdle ==
    /\ source_docs = EmptyContainer
    /\ final_docs = EmptyContainer
    /\ archive = EmptyContainer
    /\ to_copy = <<>>
    /\ archivePc = "idle"

IoIdle ==
    /\ io_op = "none"
    /\ io_failed = FALSE
    /\ io_return = NoReturn
    /\ io_raised = FALSE
    /\ caller = "idle"

\* the functions that are not being called
ExtIdle ==
    /\ GeoIdle
    /\ ReconIdle
    /\ TableIdle
    /\ RouteIdle
    /\ SourcesIdle
    /\ IoIdle
    /\ PreIdle
    /\ ArchIdle

\* the feedback parser, the section pipelines, the output container and the
\* merge before anything has run
CoreIdle ==
    /\ ParseIdle
    /\ PipeInit
    /\ store = EmptyContainer
    /\ MergeIdle

coreVars == <<parseVars, pipeVars, store, mergeVars>>

----------------------------------------------------------------------------
(* The section pipeline: create -> validate -> [correct -> validate]*.     *)

\* get_creation_task: the prompt names the section and the blob to save to
get_creation_task(section_number, out_name) ==
    [kind |-> "creation", section_number |-> section_number,
     previous_draft |-> <<>>, revision_request |-> <<>>,
     output_blob_name |-> out_name]

\* get_correction_task with the [PREVIOUS_DRAFT] block left empty
get_correction_task_without_draft(section_number, previous_draft, revision_request, out_name) ==
    [kind |-> "correction", section_number |-> section_number,
     previous_draft |-> <<>>, revision_request |-> revision_request,
     output_blob_name |-> out_name]

\* get_correction_task naming the section where the blob name belongs
get_correction_task_wrong_blob(section_number, previous_draft, revision_request, out_name) ==
    [kind |-> "correction", section_number |-> section_number,
     previous_draft |-> previous_draft, revision_request |-> revision_request,
     output_blob_name |-> str(section_number)]

\* get_correction_task: the prompt carries the revision request, the
\* previous draft and the blob to save the revised text to
get_correction_task(section_number, previous_draft, revision_request, out_name) ==
    [kind |-> "correction", section_number |-> section_number,
     previous_draft |-> previous_draft, revision_request |-> revision_request,
     output_blob_name |-> out_name]

\* the text the writer team produces for a task: one text per blob it is
\* asked to write
document_writer(t) == <<"draft of">> \o t.output_blob_name

\* the writer team: Document_Writer drafts, Writer_User_Proxy saves the
\* draft with upload_blob_async under the blob name the prompt gives
writer_team(container, t) ==
    upload_blob_async(container, t.output_blob_name, document_writer(t))

\* reports the validator team can save
ValidatorReports ==
    { <<"START", "critical", ":", "0", "WS", "STANDARD", ":", "0", "END">>,
      <<"START", "critical", ":", "0", "WS", "STANDARD", ":", "3", "END">>,
      <<"critical", ":", "3">> }

\* run_validation_async: the validator team saves its report as the
\* feedback blob; report = <<>> stands for a team that saved nothing
run_validation_async(container, fb_name, report) ==
    IF report = <<>> THEN container
    ELSE upload_blob_async(container, fb_name, report)

\* the decision rule: no critical and no standard issue
acceptable(issue_counts) ==
    issue_counts["critical"] = 0 /\ issue_counts["standard"] = 0

\* at the round cap the section is left where it is
cap_state_unchanged == "Correcting"

\* the state a section takes at the round cap
cap_state == "MaxRoundsExceeded"

\* the cap tested one round late
may_correct_one_more(rounds_run) == rounds_run <= MaxRounds

\* whether another correction round may run
may_correct(rounds_run) == rounds_run < MaxRounds

Terminal == {"Accepted", "MaxRoundsExceeded"}

Draft(s) ==
    /\ state[s] = "Drafting"
    /\ LET t == get_creation_task(s, output_blob_name(s, 1))
       IN  /\ task' = [task EXCEPT ![s] = t]
           /\ store' = writer_team(store, t)
           /\ writes' = logged(writes, OUTPUT_BLOB_CONTAINER, t.output_blob_name)
    /\ iteration' = [iteration EXCEPT ![s] = 1]
    /\ state' = [state EXCEPT ![s] = "AwaitingValidation"]
    /\ UNCHANGED <<rounds, feedback, summary, parseVars, mergeVars, extVars>>

Validate(s) ==
    /\ state[s] = "AwaitingValidation"
    /\ \E report \in ValidatorReports \cup {<<>>} :
        LET fb_name == feedback_blob_name(s, iteration[s])
            saved == run_validation_async(store, fb_name, report)
            text == download_blob_as_text_async(saved, fb_name, TRUE)
            issue_counts == parse_feedback_and_count_issues(text)
        IN  /\ store' = saved
            /\ writes' = IF report = <<>> THEN writes
                          ELSE logged(writes, OUTPUT_BLOB_CONTAINER, fb_name)
            /\ feedback' = [feedback EXCEPT ![s] = text]
            /\ summary' = [summary EXCEPT ![s] = issue_counts]
            /\ state' = [state EXCEPT ![s] =
                            IF acceptable(issue_counts) THEN "Accepted"
                            ELSE "Correcting"]
    /\ UNCHANGED <<iteration, rounds, task, parseVars, mergeVars, extVars>>

\* a correction round counted against every section
Correct_counted_for_all(s) ==
    /\ state[s] = "Correcting"
    /\ may_correct(rounds[s])
    /\ LET previous_draft ==
               download_blob_as_text_async(store, output_blob_name(s, iteration[s]), TRUE)
           t == get_correction_task(s, previous_draft, feedback[s],
                                    output_blob_name(s, iteration[s] + 1))
       IN  /\ task' = [task EXCEPT ![s] = t]
           /\ store' = writer_team(store, t)
           /\ writes' = logged(writes, OUTPUT_BLOB_CONTAINER, t.output_blob_name)
    /\ iteration' = [iteration EXCEPT ![s] = iteration[s] + 1]
    /\ rounds' = [r \in Sections |-> rounds[r] + 1]
    /\ state' = [state EXCEPT ![s] = "AwaitingValidation"]
    /\ UNCHANGED <<feedback, summary, parseVars, mergeVars, extVars>>

Correct(s) ==
    /\ state[s] = "Correcting"
    /\ may_correct(rounds[s])
    /\ LET previous_draft ==
               download_blob_as_text_async(store, output_blob_name(s, iteration[s]), TRUE)
           t == get_correction_task(s, previous_draft, feedback[s],
                                    output_blob_name(s, iteration[s] + 1))
       IN  /\ task' = [task EXCEPT ![s] = t]
           /\ store' = writer_team(store, t)
           /\ writes' = logged(writes, OUTPUT_BLOB_CONTAINER, t.output_blob_name)
    /\ iteration' = [iteration EXCEPT ![s] = iteration[s] + 1]
    /\ rounds' = [rounds EXCEPT ![s] = rounds[s] + 1]
    /\ state' = [state EXCEPT ![s] = "AwaitingValidation"]
    /\ UNCHANGED <<feedback, summary, parseVars, mergeVars, extVars>>

RoundCap(s) ==
    /\ state[s] = "Correcting"
    /\ ~may_correct(rounds[s])
    /\ state' = [state EXCEPT ![s] = cap_state]
    /\ UNCHANGED <<iteration, rounds, feedback, summary, task, writes, store,
                   parseVars, mergeVars, extVars>>

Init ==
    /\ ParseIdle
    /\ PipeInit
    /\ store = EmptyContainer
    /\ MergeIdle
    /\ ExtIdle

\* the next step of section s: exactly one of them is enabled until the
\* section is in a terminal state
SectionStep(s) ==
    \/ Draft(s)
    \/ Validate(s)
    \/ Correct(s)
    \/ RoundCap(s)

Next == \E s \in Sections : SectionStep(s)

Spec == Init /\ [][Next]_vars

\* every writer and validator invocation returns
Fairness == \A s \in Sections : WF_vars(SectionStep(s))

FairSpec == Spec /\ Fairness

----------------------------------------------------------------------------
(* merge_output_files_async: the latest iteration of every section is      *)
(* found among the listed blob names and the texts are merged.             *)

NoGroups == [found |-> FALSE, section |-> <<>>, iteration |-> <<>>]

\* re.compile(r'output_s(\d+)_i(\d+)\.md').match(blob_name): anchored at the
\* start of the name only, the groups are the two digit runs
pattern_match(blob_name) ==
    IF Len(blob_name) < 1 \/ blob_name[1] # "output_s" THEN NoGroups
    ELSE LET a == DigitEnd(blob_name, 2)
         IN  IF a < 2 \/ a + 1 > Len(blob_name) \/ blob_name[a + 1] # "_i"
             THEN NoGroups
             ELSE LET b == DigitEnd(blob_name, a + 2)
                  IN  IF b < a + 2 \/ b + 1 > Len(blob_name) \/ blob_name[b + 1] # ".md"
                      THEN NoGroups
                      ELSE [found |-> TRUE,
                            section |-> SubSeq(blob_name, 2, a),
                            iteration |-> SubSeq(blob_name, a + 2, b)]

\* the stored entry replaced by every matching blob, whatever its iteration
is_later_unchecked(latest, section_number, iteration_number) == TRUE

\* the condition under which a matching blob replaces the stored entry
is_later(latest, section_number, iteration_number) ==
    section_number \notin DOMAIN latest \/ iteration_number > latest[section_number][2]

\* the loop over all_blobs (from index i on) that fills latest_iterations:
\* section number -> <<blob name, iteration number>>
RECURSIVE scan_blobs(_, _, _)
scan_blobs(blobs, i, latest) ==
    IF i > Len(blobs) THEN latest
    ELSE LET match == pattern_match(blobs[i])
             section_number == int(match.section)
             iteration_number == int(match.iteration)
         IN  IF match.found /\ is_later(latest, section_number, iteration_number)
             THEN scan_blobs(blobs, i + 1,
                      [n \in DOMAIN latest \cup {section_number} |->
                          IF n = section_number THEN <<blobs[i], iteration_number>>
                          ELSE latest[n]])
             ELSE scan_blobs(blobs, i + 1, latest)

NoLatest == [n \in {} |-> <<>>]

\* the sanity check failing only when sections are missing
incomplete_sections_when_fewer(latest) == Cardinality(DOMAIN latest) < TOTAL_SECTIONS

\* the sanity check before merging: the number of sections found
incomplete_sections(latest) == Cardinality(DOMAIN latest) # TOTAL_SECTIONS

\* sorted(latest_iterations.items()) reduced to the blob names
RECURSIVE final_blob_names(_)
final_blob_names(latest) ==
    IF DOMAIN latest = {} THEN <<>>
    ELSE LET low == CHOOSE n \in DOMAIN latest : \A k \in DOMAIN latest : n <= k
         IN  <<latest[low][1]>>
             \o final_blob_names([n \in DOMAIN latest \ {low} |-> latest[n]])

\* "\n\n---\n\n".join(texts)
RECURSIVE join(_)
join(texts) ==
    IF texts = <<>> THEN <<>>
    ELSE IF Len(texts) = 1 THEN texts[1]
    ELSE texts[1] \o <<"SEP">> \o join(Tail(texts))

\* lines 479-512: list, scan, check the section count
MergePlan ==
    /\ mergePc = "idle"
    /\ \E ok \in BOOLEAN :
        \E listing \in list_blobs_async(store, ok) :
            LET latest == scan_blobs(listing, 1, NoLatest)
            IN  /\ all_blobs' = listing
                /\ latest_iterations' = latest
                /\ IF incomplete_sections(latest)
                   THEN mergePc' = "done" /\ mergeResult' = "False"
                   ELSE mergePc' = "gather" /\ mergeResult' = mergeResult
    /\ UNCHANGED <<completed, full_content, store, parseVars, pipeVars, extVars>>

\* line 514: one download task per winning draft, in ascending section order
content_tasks(latest) == final_blob_names(latest)

\* line 515: one of the running downloads finishes, any of them, each with
\* its own outcome
MergeRetrieve ==
    /\ mergePc = "gather"
    /\ LET names == content_tasks(latest_iterations)
       IN  \E k \in 1..Len(names) :
               /\ \A c \in 1..Len(completed) : completed[c].task # k
               /\ \E ok \in BOOLEAN :
                   completed' = Append(completed,
                       [task |-> k, blob_name |-> names[k], ok |-> ok,
                        text |-> download_blob_as_text_async(store, names[k], ok)])
    /\ UNCHANGED <<all_blobs, latest_iterations, full_content, mergePc,
                   mergeResult, store, parseVars, pipeVars, extVars>>

\* the results listed in the order the downloads finished
gather_as_completed(n, finished) == [k \in 1..n |-> finished[k].text]

\* asyncio.gather: the results in the order of the tasks given to it
gather(n, finished) ==
    [k \in 1..n |->
        finished[CHOOSE c \in 1..Len(finished) : finished[c].task = k].text]

\* line 515: gather returns once every download has finished
MergeGather ==
    /\ mergePc = "gather"
    /\ Len(completed) = Len(content_tasks(latest_iterations))
    /\ full_content' = gather(Len(completed), completed)
    /\ mergePc' = "upload"
    /\ UNCHANGED <<all_blobs, latest_iterations, completed, mergeResult, store,
                   parseVars, pipeVars, extVars>>

\* lines 516-523: the merged text is uploaded; a failing upload is caught
MergeUpload ==
    /\ mergePc = "upload"
    /\ \E ok \in BOOLEAN :
        IF ok
        THEN /\ store' = upload_blob_async(store, FINAL_DOCUMENT_FILENAME, join(full_content))
             /\ mergeResult' = "True"
        ELSE /\ store' = store
             /\ mergeResult' = "False"
    /\ mergePc' = "done"
    /\ UNCHANGED <<all_blobs, latest_iterations, completed, full_content,
                   parseVars, pipeVars, extVars>>

\* blob names the output container can hold when merge is called
BlobNames ==
    { output_blob_name(1, 1), output_blob_name(1, 2), output_blob_name(1, 10),
      <<"output_s", "1", "_i", "0", "2", ".md">>,
      <<"output_s", "1", "_i", "2", ".md", ".bak">>,
      output_blob_name(2, 1), output_blob_name(3, 1),
      feedback_blob_name(1, 1), FINAL_DOCUMENT_FILENAME }

ContainersAtMerge ==
    { [n \in S |-> <<"draft of">> \o n] :
        S \in {S \in SUBSET BlobNames : Cardinality(S) <= MaxBlobs} }

MergeInit ==
    /\ ParseIdle
    /\ PipeInit
    /\ store \in ContainersAtMerge
    /\ MergeIdle
    /\ ExtIdle

MergeNext ==
    \/ MergePlan
    \/ MergeRetrieve
    \/ MergeGather
    \/ MergeUpload

MergeSpec == MergeInit /\ [][MergeNext]_vars

----------------------------------------------------------------------------
(* The parser applied to every enumerated report. *)

ParseInit ==
    /\ feedback_content \in Reports
    /\ counts = NoCounts
    /\ parsePc = "call"
    /\ PipeInit
    /\ store = EmptyContainer
    /\ MergeIdle
    /\ ExtIdle

Parse ==
    /\ parsePc = "call"
    /\ counts' = parse_feedback_and_count_issues(feedback_content)
    /\ parsePc' = "return"
    /\ UNCHANGED <<feedback_content, pipeVars, store, mergeVars, extVars>>

ParseNext == Parse

ParseSpec == ParseInit /\ [][ParseNext]_vars

----------------------------------------------------------------------------
(* _is_element_in_regions: whether an element's bounding box overlaps the  *)
(* box of a table region on the same page.  A bounding region is a page    *)
(* number and a polygon, the sequence x1, y1, x2, y2, x3, y3, x4, y4 of    *)
(* the corners, clockwise from the top-left one.                           *)

min(S) == CHOOSE a \in S : \A b \in S : a <= b

max(S) == CHOOSE a \in S : \A b \in S : a >= b

\* polygon[0::2]: the x coordinates (the odd positions, counted from 1)
x_coords(polygon) == {polygon[k] : k \in {j \in 1..Len(polygon) : j % 2 = 1}}

\* polygon[1::2]: the y coordinates
y_coords(polygon) == {polygon[k] : k \in {j \in 1..Len(polygon) : j % 2 = 0}}

\* x_overlap and y_overlap with the comparisons not strict
boxes_overlap_or_touch(elem_coords, table_coords) ==
    /\ min(x_coords(elem_coords)) <= max(x_coords(table_coords))
    /\ max(x_coords(elem_coords)) >= min(x_coords(table_coords))
    /\ min(y_coords(elem_coords)) <= max(y_coords(table_coords))
    /\ max(y_coords(elem_coords)) >= min(y_coords(table_coords))

\* x_overlap and y_overlap, for elements whose box has an area only
boxes_overlap_with_area(elem_coords, table_coords) ==
    /\ min(x_coords(elem_coords)) < max(x_coords(elem_coords))
    /\ min(y_coords(elem_coords)) < max(y_coords(elem_coords))
    /\ min(x_coords(elem_coords)) < max(x_coords(table_coords))
    /\ max(x_coords(elem_coords)) > min(x_coords(table_coords))
    /\ min(y_coords(elem_coords)) < max(y_coords(table_coords))
    /\ max(y_coords(elem_coords)) > min(y_coords(table_coords))

\* x_overlap and y_overlap of the two bounding boxes
boxes_overlap(elem_coords, table_coords) ==
    LET elem_min_x == min(x_coords(elem_coords))
        elem_max_x == max(x_coords(elem_coords))
        elem_min_y == min(y_coords(elem_coords))
        elem_max_y == max(y_coords(elem_coords))
        table_min_x == min(x_coords(table_coords))
        table_max_x == max(x_coords(table_coords))
        table_min_y == min(y_coords(table_coords))
        table_max_y == max(y_coords(table_coords))
        x_overlap == (elem_min_x < table_max_x) /\ (elem_max_x > table_min_x)
        y_overlap == (elem_min_y < table_max_y) /\ (elem_max_y > table_min_y)
    IN  x_overlap /\ y_overlap

\* the loop over all_table_regions from index i on: regions of another page
\* are skipped, the first overlapping region returns True
RECURSIVE regions_loop(_, _, _)
regions_loop(elem_region, regions, i) ==
    IF i > Len(regions) THEN FALSE
    ELSE IF elem_region.page_number # regions[i].page_number
         THEN regions_loop(elem_region, regions, i + 1)
    ELSE IF boxes_overlap(elem_region.polygon, regions[i].polygon) THEN TRUE
    ELSE regions_loop(elem_region, regions, i + 1)

_is_element_in_regions(elem, regions) ==
    IF elem.bounding_regions = <<>> THEN FALSE
    ELSE regions_loop(elem.bounding_regions[1], regions, 1)

\* the polygon of the upright rectangle with the given edges
Rectangle(left, right, top, bottom) ==
    <<left, top, right, top, right, bottom, left, bottom>>

\* the edges of a box along one axis
Edges == {<<0, 1>>, <<1, 2>>, <<0, 2>>}

Polygons == {Rectangle(h[1], h[2], v[1], v[2]) : h \in Edges, v \in Edges}

Pages == {1, 2}

BoundingRegions == [page_number : Pages, polygon : Polygons]

RECURSIVE RegionSeqs(_)
RegionSeqs(n) ==
    IF n = 0 THEN {<<>>}
    ELSE RegionSeqs(n - 1)
         \cup {s \o <<r>> : s \in RegionSeqs(n - 1), r \in BoundingRegions}

\* polygons without area: a point, a corner point, a horizontal and a
\* vertical segment
DegeneratePolygons ==
    { Rectangle(1, 1, 1, 1), Rectangle(0, 0, 0, 0),
      Rectangle(0, 2, 1, 1), Rectangle(1, 1, 0, 2) }

\* elements: without a bounding region, with one, with a polygon without
\* area, and with a second region on the next page
Elements ==
    {[bounding_regions |-> <<>>]}
    \cup {[bounding_regions |-> <<r>>] : r \in BoundingRegions}
    \cup {[bounding_regions |-> <<[page_number |-> 1, polygon |-> d]>>] :
              d \in DegeneratePolygons}
    \cup {[bounding_regions |->
              <<[page_number |-> 1, polygon |-> Rectangle(0, 1, 0, 1)],
                [page_number |-> 2, polygon |-> Rectangle(0, 2, 0, 2)]>>]}

GeometryInit ==
    /\ CoreIdle
    /\ element \in Elements
    /\ all_table_regions \in RegionSeqs(MaxRegions)
    /\ in_regions = "pending"
    /\ ReconIdle
    /\ TableIdle
    /\ RouteIdle
    /\ SourcesIdle
    /\ IoIdle
    /\ PreIdle
    /\ ArchIdle

Classify ==
    /\ in_regions = "pending"
    /\ in_regions' = IF _is_element_in_regions(element, all_table_regions)
                     THEN "True" ELSE "False"
    /\ UNCHANGED <<element, all_table_regions, coreVars, reconVars, tableVars,
                   routeVars, sourceVars, ioVars, preVars,
                   archVars>>

GeometryNext == Classify

GeometrySpec == GeometryInit /\ [][GeometryNext]_vars

----------------------------------------------------------------------------
(* analyse_document_with_di, the layout path: tables and the paragraphs    *)
(* outside every table region, in reading order.                           *)

\* lines 429-430: the flat list of the bounding regions of the first table
\* only
first_table_regions(tables) ==
    IF tables = <<>> THEN <<>> ELSE tables[1].bounding_regions

\* lines 429-430: the flat list of the bounding regions of all tables
RECURSIVE table_regions(_)
table_regions(tables) ==
    IF tables = <<>> THEN <<>>
    ELSE tables[1].bounding_regions \o table_regions(Tail(tables))

\* lines 431-433 and 438-440: the entry of an element in all_elements
element_entry(type, item) ==
    [type |-> type, content |-> item.content,
     page |-> item.bounding_regions[1].page_number,
     y_pos |-> item.bounding_regions[1].polygon[2]]

\* the paragraphs kept: those outside every table region
RECURSIVE kept_paragraphs(_, _)
kept_paragraphs(paragraphs, regions) ==
    IF paragraphs = <<>> THEN <<>>
    ELSE IF _is_element_in_regions(paragraphs[1], regions)
         THEN kept_paragraphs(Tail(paragraphs), regions)
         ELSE <<paragraphs[1]>> \o kept_paragraphs(Tail(paragraphs), regions)

\* bounding_regions[0] of an element without bounding regions raises
\* IndexError: for a table at line 431, for a kept paragraph at line 438
analyse_raises(res) ==
    \/ \E k \in 1..Len(res.tables) : res.tables[k].bounding_regions = <<>>
    \/ LET kept == kept_paragraphs(res.paragraphs, table_regions(res.tables))
       IN  \E k \in 1..Len(kept) : kept[k].bounding_regions = <<>>

\* the sort key with the page left out
sort_key_without_page(item) == <<0, item.y_pos>>

\* key=lambda item: (item['page'], item['y_pos'])
sort_key(item) == <<item.page, item.y_pos>>

\* tuple comparison a < b
key_lt(a, b) == a[1] < b[1] \/ (a[1] = b[1] /\ a[2] < b[2])

\* tuple comparison a <= b
key_le(a, b) == a[1] < b[1] \/ (a[1] = b[1] /\ a[2] <= b[2])

\* list.sort(key=...): stable, an item goes after the items whose key is
\* not greater than its own
RECURSIVE insert_sorted(_, _)
insert_sorted(sorted_items, item) ==
    IF sorted_items = <<>> THEN <<item>>
    ELSE IF key_le(sort_key(sorted_items[1]), sort_key(item))
         THEN <<sorted_items[1]>> \o insert_sorted(Tail(sorted_items), item)
         ELSE <<item>> \o sorted_items

RECURSIVE sort(_)
sort(items) ==
    IF items = <<>> THEN <<>>
    ELSE insert_sorted(sort(SubSeq(items, 1, Len(items) - 1)), items[Len(items)])

\* lines 425-442: the tables, then the kept paragraphs, then the sort
layout_elements(res) ==
    LET kept == kept_paragraphs(res.paragraphs, table_regions(res.tables))
    IN  sort([k \in 1..Len(res.tables) |-> element_entry("table", res.tables[k])]
             \o [k \in 1..Len(kept) |-> element_entry("paragraph", kept[k])])

\* bounding regions of the enumerated results: three boxes stacked on page
\* 1, a box across them, and a box on page 2
ReconRegions ==
    { [page_number |-> 1, polygon |-> Rectangle(0, 2, 0, 1)],
      [page_number |-> 1, polygon |-> Rectangle(0, 2, 1, 2)],
      [page_number |-> 1, polygon |-> Rectangle(0, 2, 2, 3)],
      [page_number |-> 1, polygon |-> Rectangle(1, 2, 0, 2)],
      [page_number |-> 2, polygon |-> Rectangle(0, 2, 0, 1)] }

\* a paragraph has no box, or one of the boxes above, or a box to the left
\* of the box across that touches it
ParagraphRegions ==
    {<<>>}
    \cup {<<r>> : r \in ReconRegions \ {[page_number |-> 1, polygon |-> Rectangle(0, 2, 1, 2)],
                                        [page_number |-> 1, polygon |-> Rectangle(1, 2, 0, 2)]}}
    \cup {<<[page_number |-> 1, polygon |-> Rectangle(0, 1, 0, 2)]>>}

TableRegions ==
    { <<[page_number |-> 1, polygon |-> Rectangle(0, 2, 1, 2)]>>,
      <<[page_number |-> 1, polygon |-> Rectangle(1, 2, 0, 2)]>>,
      <<[page_number |-> 1, polygon |-> Rectangle(0, 2, 2, 3)],
        [page_number |-> 2, polygon |-> Rectangle(0, 2, 0, 1)]>> }

\* up to n items with bounding regions from the set given; the content of
\* an item is its kind and its position in the result
RECURSIVE RegionLists(_, _)
RegionLists(n, choices) ==
    IF n = 0 THEN {<<>>}
    ELSE RegionLists(n - 1, choices)
         \cup {s \o <<r>> : s \in RegionLists(n - 1, choices), r \in choices}

Items_of(kind, regions) ==
    [k \in 1..Len(regions) |->
        [content |-> <<kind, k>>, bounding_regions |-> regions[k]]]

AnalysisResults ==
    { [documents |-> d, tables |-> Items_of("table", tr),
       paragraphs |-> Items_of("paragraph", pr)] :
        d \in {<<>>, <<"form">>},
        tr \in RegionLists(MaxTables, TableRegions),
        pr \in RegionLists(MaxParagraphs, ParagraphRegions) }

AnalyseInit ==
    /\ CoreIdle
    /\ GeoIdle
    /\ result \in AnalysisResults
    /\ all_elements = <<>>
    /\ analysePc = "call"
    /\ TableIdle
    /\ RouteIdle
    /\ SourcesIdle
    /\ IoIdle
    /\ PreIdle
    /\ ArchIdle

\* analyse_document_with_di from the analysis result on: the custom model
\* path writes the form fields only, the layout path the sorted elements;
\* an exception makes the function return ""
Analyse ==
    /\ analysePc = "call"
    /\ IF result.documents # <<>>
       THEN all_elements' = <<>> /\ analysePc' = "return"
       ELSE IF analyse_raises(result)
       THEN all_elements' = <<>> /\ analysePc' = "raised"
       ELSE all_elements' = layout_elements(result) /\ analysePc' = "return"
    /\ UNCHANGED <<result, coreVars, geoVars, tableVars, routeVars, sourceVars,
                   ioVars, preVars,
                   archVars>>

AnalyseNext == Analyse

AnalyseSpec == AnalyseInit /\ [][AnalyseNext]_vars

----------------------------------------------------------------------------
(* _format_table_as_markdown: the grid of cell texts.  In a cell content   *)
(* "NL" is a line break and "WS" a space; rows and columns are counted     *)
(* from 0 as the cell indices are.                                         *)

\* content.replace('\n', ' ')
RECURSIVE replace_newlines(_)
replace_newlines(content) ==
    IF content = <<>> THEN <<>>
    ELSE <<IF content[1] = "NL" THEN "WS" ELSE content[1]>>
         \o replace_newlines(Tail(content))

\* cell.content.replace('\n', ' ').strip()
cell_text(content) == strip(replace_newlines(content))

\* line 368: row_count rows of column_count empty strings
empty_grid(row_count, column_count) ==
    [r \in 0..(row_count - 1) |-> [c \in 0..(column_count - 1) |-> <<>>]]

\* len(grid[0]), evaluated only when the row index is below len(grid)
len_first_row(g) == Cardinality(DOMAIN g[0])

\* line 370 with an entry written once only: a cell is placed when both
\* indices are within the grid and the entry is still empty
cell_in_empty_entry(g, cell) ==
    /\ cell.row_index < Cardinality(DOMAIN g)
    /\ cell.column_index < len_first_row(g)
    /\ g[cell.row_index][cell.column_index] = <<>>

\* line 370: both indices are within the grid
cell_in_grid(g, cell) ==
    /\ cell.row_index < Cardinality(DOMAIN g)
    /\ cell.column_index < len_first_row(g)

\* lines 369-371: the cells from index i on are placed, each over what the
\* grid holds
RECURSIVE place_cells(_, _, _)
place_cells(g, cells, i) ==
    IF i > Len(cells) THEN g
    ELSE IF cell_in_grid(g, cells[i])
         THEN place_cells(
                  [g EXCEPT ![cells[i].row_index][cells[i].column_index] =
                                cell_text(cells[i].content)],
                  cells, i + 1)
         ELSE place_cells(g, cells, i + 1)

\* lines 368-371 of _format_table_as_markdown
table_grid(tbl) ==
    place_cells(empty_grid(tbl.row_count, tbl.column_count), tbl.cells, 1)

\* " | ".join(texts)
RECURSIVE pipe_join(_)
pipe_join(texts) ==
    IF texts = <<>> THEN <<>>
    ELSE IF Len(texts) = 1 THEN texts[1]
    ELSE texts[1] \o <<" | ">> \o pipe_join(Tail(texts))

\* a row of the grid as the list of its cell texts
row_list(row) == [c \in 1..Cardinality(DOMAIN row) |-> row[c - 1]]

\* f"| {text} |\n"
markdown_row(text) == <<"| ">> \o text \o <<" |", "NL">>

\* lines 380-382: the rows of the grid from row r on
RECURSIVE data_rows(_, _)
data_rows(g, r) ==
    IF r >= Cardinality(DOMAIN g) THEN <<>>
    ELSE markdown_row(pipe_join(row_list(g[r]))) \o data_rows(g, r + 1)

\* line 373: not grid, a list of rows is empty when it has no row
grid_is_empty(g) == Cardinality(DOMAIN g) = 0

\* lines 368-385
_format_table_as_markdown(tbl) ==
    LET g == table_grid(tbl)
    IN  IF grid_is_empty(g) THEN <<>>
        ELSE <<"NL", "### Table (Page ">>
                 \o str(tbl.bounding_regions[1].page_number) \o <<")", "NL">>
             \o markdown_row(pipe_join(row_list(g[0])))
             \o markdown_row(pipe_join([c \in 1..len_first_row(g) |-> <<"---">>]))
             \o data_rows(g, 1)
             \o <<"NL">>

CellContents == {<<"a">>, <<"NL", "b", "NL", "c", "WS">>}

Cells == [row_index : 0..2, column_index : 0..1, content : CellContents]

RECURSIVE CellSeqs(_)
CellSeqs(n) ==
    IF n = 0 THEN {<<>>}
    ELSE CellSeqs(n - 1) \cup {s \o <<c>> : s \in CellSeqs(n - 1), c \in Cells}

\* the tables given to the formatter are on page 2
Tables ==
    [row_count : 0..2, column_count : 0..2, cells : CellSeqs(MaxCells),
     bounding_regions : {<<[page_number |-> 2, polygon |-> Rectangle(0, 2, 0, 1)]>>}]

FormatInit ==
    /\ CoreIdle
    /\ GeoIdle
    /\ ReconIdle
    /\ table \in Tables
    /\ grid = NoGrid
    /\ markdown = <<>>
    /\ formatPc = "call"
    /\ RouteIdle
    /\ SourcesIdle
    /\ IoIdle
    /\ PreIdle
    /\ ArchIdle

Format ==
    /\ formatPc = "call"
    /\ grid' = table_grid(table)
    /\ markdown' = _format_table_as_markdown(table)
    /\ formatPc' = "return"
    /\ UNCHANGED <<table, coreVars, geoVars, reconVars, routeVars, sourceVars,
                   ioVars, preVars,
                   archVars>>

FormatNext == Format

FormatSpec == FormatInit /\ [][FormatNext]_vars

----------------------------------------------------------------------------
(* The routing logic of preprocess_all_pdfs_async.  A file name is a       *)
(* sequence of tokens: the letters "a", "b", "A", "B", the digit "9", the  *)
(* separator "_" and the word "default"; AZURE_DI_MODEL_IDS is the         *)
(* sequence of the dictionary's <<keyword, model id>> items in declared    *)
(* order, the key "default" among them.                                    *)

\* pdf_blob_name.lower()
lower_all(name) == [k \in 1..Len(name) |-> lower(name[k])]

\* re.sub(r'[^a-z0-9]', '', ...): the tokens that are not lowercase
\* letters or digits are removed
RECURSIVE remove_non_alphanumeric(_)
remove_non_alphanumeric(name) ==
    IF name = <<>> THEN <<>>
    ELSE (IF name[1] \in {"a", "b", "9", "default"} THEN <<name[1]>> ELSE <<>>)
         \o remove_non_alphanumeric(Tail(name))

\* lines 308-309: sanitised_filename
sanitised_filename(name) == remove_non_alphanumeric(lower_all(name))

\* keyword in sanitised: the keyword is a run of consecutive tokens of it
contains(sanitised, keyword) ==
    \E k \in 0..(Len(sanitised) - Len(keyword)) :
        SubSeq(sanitised, k + 1, k + Len(keyword)) = keyword

DefaultKey == <<"default">>

\* config.AZURE_DI_MODEL_IDS["default"]
default_model(items) ==
    items[CHOOSE k \in 1..Len(items) : items[k][1] = DefaultKey][2]

\* the loop of lines 310-314 without the break: every keyword contained in
\* the sanitised name replaces the model chosen so far
RECURSIVE every_match(_, _, _, _)
every_match(items, i, sanitised, chosen) ==
    IF i > Len(items) THEN chosen
    ELSE IF contains(sanitised, items[i][1])
         THEN every_match(items, i + 1, sanitised, items[i][2])
    ELSE every_match(items, i + 1, sanitised, chosen)

\* the loop of lines 310-314 from item i on: the first keyword contained
\* in the sanitised name gives the model and ends the loop
RECURSIVE first_match(_, _, _, _)
first_match(items, i, sanitised, chosen) ==
    IF i > Len(items) THEN chosen
    ELSE IF contains(sanitised, items[i][1]) THEN items[i][2]
    ELSE first_match(items, i + 1, sanitised, chosen)

\* lines 305-314: model_id_to_use for a file name
route(name, items) ==
    first_match(items, 1, sanitised_filename(name), default_model(items))

NameTokens == {"a", "b", "A", "_", "9", "default"}

RECURSIVE Names(_)
Names(n) ==
    IF n = 0 THEN {<<>>}
    ELSE Names(n - 1) \cup {s \o <<c>> : s \in Names(n - 1), c \in NameTokens}

Keywords == {<<"a">>, <<"b">>, <<"a", "b">>, <<"A">>}

\* the model id configured for a keyword
ModelOf(keyword) == <<"model for">> \o keyword

\* the declared items: up to two keywords in some order, and the default
\* item before, between or after them
ModelIdConfigs ==
    LET def == <<DefaultKey, ModelOf(DefaultKey)>>
        one == {<<(<<k, ModelOf(k)>>)>> : k \in Keywords}
        two == {<<(<<p[1], ModelOf(p[1])>>), (<<p[2], ModelOf(p[2])>>)>> :
                   p \in {q \in Keywords \X Keywords : q[1] # q[2]}}
        keys == {<<>>} \cup one \cup two
    IN  UNION {{SubSeq(ks, 1, at) \o <<def>> \o SubSeq(ks, at + 1, Len(ks)) :
                   at \in 0..Len(ks)} : ks \in keys}

RouteInit ==
    /\ CoreIdle
    /\ GeoIdle
    /\ ReconIdle
    /\ TableIdle
    /\ pdf_blob_name \in Names(MaxName)
    /\ AZURE_DI_MODEL_IDS \in ModelIdConfigs
    /\ model_id_to_use = <<>>
    /\ routePc = "call"
    /\ SourcesIdle
    /\ IoIdle
    /\ PreIdle
    /\ ArchIdle

Route ==
    /\ routePc = "call"
    /\ model_id_to_use' = route(pdf_blob_name, AZURE_DI_MODEL_IDS)
    /\ routePc' = "return"
    /\ UNCHANGED <<pdf_blob_name, AZURE_DI_MODEL_IDS, coreVars, geoVars,
                   reconVars, tableVars, sourceVars, ioVars, preVars,
                   archVars>>

RouteNext == Route

RouteSpec == RouteInit /\ [][RouteNext]_vars

----------------------------------------------------------------------------
(* download_all_sources_from_container_async: the source texts of a        *)
(* container in one string.  A blob name is a sequence of tokens: a folder *)
(* prefix "dir/", letters and digits, and the suffixes ".pdf", ".txt".     *)

\* os.path.basename(blob_name)
RECURSIVE basename(_)
basename(blob_name) ==
    IF blob_name # <<>> /\ blob_name[1] = "dir/" THEN basename(Tail(blob_name))
    ELSE blob_name

\* str.removesuffix('.txt')
removesuffix_txt(name) ==
    IF name # <<>> /\ name[Len(name)] = ".txt"
    THEN SubSeq(name, 1, Len(name) - 1) ELSE name

\* str.replace('.pdf', '')
RECURSIVE replace_pdf(_)
replace_pdf(name) ==
    IF name = <<>> THEN <<>>
    ELSE (IF name[1] = ".pdf" THEN <<>> ELSE <<name[1]>>) \o replace_pdf(Tail(name))

\* line 160: exclude_files_lower
exclude_files_lower(files) ==
    [k \in 1..Len(files) |-> replace_pdf(lower_all(files[k]))]

\* lines 178-182: the file name contains one of the exclusions
is_excluded(blob_name, files) ==
    LET filename_base == removesuffix_txt(lower_all(basename(blob_name)))
        exclusions == exclude_files_lower(files)
    IN  \E k \in 1..Len(exclusions) : contains(filename_base, exclusions[k])

\* line 187
start_of_file(blob_name) ==
    <<"--- START OF FILE">> \o basename(blob_name) \o <<"---">>

\* line 189
end_of_file(blob_name) ==
    <<"--- END OF FILE">> \o basename(blob_name) \o <<"---">>

NO_SOURCES == <<"ERROR", ":", "No source documents found in the specified container.">>

\* the next iteration starting while downloads are still running
may_start_while_downloading(running) == TRUE

\* line 188: the loop awaits the download, the next iteration starts when
\* no download is running
may_start(running) == running = {}

\* lines 167-173: the listing; an empty one returns the error text
SourcesList ==
    /\ sourcesPc = "call"
    /\ \E ok \in BOOLEAN :
        \E listing \in list_blobs_async(sources, ok) :
            /\ blob_names' = listing
            /\ IF listing = <<>>
               THEN corpus' = NO_SOURCES /\ sourcesPc' = "done"
               ELSE corpus' = <<>> /\ sourcesPc' = "loop"
    /\ UNCHANGED <<sources, exclude_files, next_blob, downloading, coreVars,
                   geoVars, reconVars, tableVars, routeVars, ioVars, preVars,
                   archVars>>

\* lines 177-188: one iteration starts: an excluded file is skipped, for
\* another the start marker is appended and the download begins
SourcesStart ==
    /\ sourcesPc = "loop"
    /\ next_blob <= Len(blob_names)
    /\ may_start(downloading)
    /\ IF is_excluded(blob_names[next_blob], exclude_files)
       THEN UNCHANGED <<corpus, downloading>>
       ELSE /\ corpus' = corpus \o start_of_file(blob_names[next_blob])
            /\ downloading' = downloading \cup {next_blob}
    /\ next_blob' = next_blob + 1
    /\ UNCHANGED <<sources, exclude_files, blob_names, sourcesPc, coreVars,
                   geoVars, reconVars, tableVars, routeVars, ioVars, preVars,
                   archVars>>

\* lines 188-189: a download returns, its text and the end marker are
\* appended
SourcesDownloaded ==
    /\ sourcesPc = "loop"
    /\ \E k \in downloading :
        /\ \E ok \in BOOLEAN :
            corpus' = corpus
                      \o download_blob_as_text_async(sources, blob_names[k], ok)
                      \o end_of_file(blob_names[k])
        /\ downloading' = downloading \ {k}
    /\ UNCHANGED <<sources, exclude_files, blob_names, next_blob, sourcesPc,
                   coreVars, geoVars, reconVars, tableVars, routeVars,
                   ioVars, preVars,
                   archVars>>

\* line 193
SourcesReturn ==
    /\ sourcesPc = "loop"
    /\ next_blob > Len(blob_names)
    /\ downloading = {}
    /\ sourcesPc' = "done"
    /\ UNCHANGED <<sources, exclude_files, blob_names, next_blob, downloading,
                   corpus, coreVars, geoVars, reconVars, tableVars, routeVars,
                   ioVars, preVars,
                   archVars>>

SourceNames ==
    { <<"a", ".pdf", ".txt">>, <<"A", "b", ".pdf", ".txt">>,
      <<"dir/", "b", ".txt">>, <<"9", ".txt">> }

SourceContainers ==
    { [n \in S |-> <<"text of">> \o n] :
        S \in {S \in SUBSET SourceNames : Cardinality(S) <= MaxSources} }

ExcludeLists == {<<>>, <<(<<"A", ".pdf">>)>>, <<(<<"b">>), (<<"x">>)>>}

SourcesInit ==
    /\ CoreIdle
    /\ GeoIdle
    /\ ReconIdle
    /\ TableIdle
    /\ RouteIdle
    /\ sources \in SourceContainers
    /\ exclude_files \in ExcludeLists
    /\ blob_names = <<>>
    /\ next_blob = 1
    /\ downloading = {}
    /\ corpus = <<>>
    /\ sourcesPc = "call"
    /\ IoIdle
    /\ PreIdle
    /\ ArchIdle

SourcesNext ==
    \/ SourcesList
    \/ SourcesStart
    \/ SourcesDownloaded
    \/ SourcesReturn

SourcesSpec == SourcesInit /\ [][SourcesNext]_vars

----------------------------------------------------------------------------
(* The blob helpers called on a store that may fail: what each returns to  *)
(* its caller and whether the caller's step goes on.                       *)

\* download_blob_as_bytes_async: the bytes of the blob, b"" when the
\* download fails or the blob does not exist
download_blob_as_bytes_async(container, blob_name, ok) ==
    IF ok /\ blob_name \in DOMAIN container THEN container[blob_name] ELSE <<>>

\* copy_blob_async when the copy starts: the destination holds the source
copy_blob_async(container, source_blob_name, dest_blob_name) ==
    [n \in DOMAIN container \cup {dest_blob_name} |->
        IF n = dest_blob_name THEN container[source_blob_name] ELSE container[n]]

\* clear_blob_container_async: the blobs left when those of deleted are gone
clear_blob_container_async(container, deleted) ==
    [n \in DOMAIN container \ deleted |-> container[n]]

\* every helper passing the failure on to its caller
raises_on_failure(op, failed) == failed

\* the except branches: upload_blob_async logs and re-raises (line 121),
\* the other helpers log and return
raises(op, failed) == op = "upload_blob_async" /\ failed

\* the helper is left: by an exception, which ends the caller's step, or by
\* a return, after which the caller's step goes on
Leave(op, failed, value, container) ==
    /\ io_op' = op
    /\ io_failed' = failed
    /\ io_raised' = raises(op, failed)
    /\ io_return' = IF raises(op, failed) THEN NoReturn ELSE value
    /\ caller' = IF raises(op, failed) THEN "aborted" ELSE "continues"
    /\ store' = container

othersOfIo == <<parseVars, pipeVars, mergeVars, geoVars, reconVars, tableVars,
                routeVars, sourceVars, preVars, archVars>>

CallList ==
    /\ caller = "calling"
    /\ \E ok \in BOOLEAN :
        \E listing \in list_blobs_async(store, ok) :
            Leave("list_blobs_async", ~ok, [kind |-> "list", value |-> listing], store)
    /\ UNCHANGED othersOfIo

CallDownloadText ==
    /\ caller = "calling"
    /\ \E ok \in BOOLEAN, n \in BlobNames :
        Leave("download_blob_as_text_async", ~ok \/ n \notin DOMAIN store,
              [kind |-> "text", value |-> download_blob_as_text_async(store, n, ok)],
              store)
    /\ UNCHANGED othersOfIo

CallDownloadBytes ==
    /\ caller = "calling"
    /\ \E ok \in BOOLEAN, n \in BlobNames :
        Leave("download_blob_as_bytes_async", ~ok \/ n \notin DOMAIN store,
              [kind |-> "bytes", value |-> download_blob_as_bytes_async(store, n, ok)],
              store)
    /\ UNCHANGED othersOfIo

CallUpload ==
    /\ caller = "calling"
    /\ \E ok \in BOOLEAN, n \in BlobNames :
        Leave("upload_blob_async", ~ok, [kind |-> "None"],
              IF ok THEN upload_blob_async(store, n, <<"data">>) ELSE store)
    /\ UNCHANGED othersOfIo

CallCopy ==
    /\ caller = "calling"
    /\ \E ok \in BOOLEAN, n \in BlobNames :
        LET started == ok /\ n \in DOMAIN store
        IN  Leave("copy_blob_async", ~started, [kind |-> "None"],
                  IF started THEN copy_blob_async(store, n, <<"archive/">> \o n)
                  ELSE store)
    /\ UNCHANGED othersOfIo

\* the deletions run concurrently: when one fails, any of the others may
\* have been carried out
CallClear ==
    /\ caller = "calling"
    /\ \E deleted \in SUBSET DOMAIN store :
        Leave("clear_blob_container_async", deleted # DOMAIN store,
              [kind |-> "None"], clear_blob_container_async(store, deleted))
    /\ UNCHANGED othersOfIo

StoreInit ==
    /\ ParseIdle
    /\ PipeInit
    /\ MergeIdle
    /\ GeoIdle
    /\ ReconIdle
    /\ TableIdle
    /\ RouteIdle
    /\ SourcesIdle
    /\ PreIdle
    /\ ArchIdle
    /\ store \in ContainersAtMerge
    /\ io_op = "none"
    /\ io_failed = FALSE
    /\ io_return = NoReturn
    /\ io_raised = FALSE
    /\ caller = "calling"

StoreNext ==
    \/ CallList
    \/ CallDownloadText
    \/ CallDownloadBytes
    \/ CallUpload
    \/ CallCopy
    \/ CallClear

StoreSpec == StoreInit /\ [][StoreNext]_vars

----------------------------------------------------------------------------
(* A run: preprocess_all_pdfs_async writes the processed texts while the   *)
(* section pipelines write drafts and feedback reports.                    *)

\* name.lower().endswith('.pdf')
is_pdf(name) == name # <<>> /\ lower(name[Len(name)]) = ".pdf"

\* line 298: the listed names that are PDFs, in listing order
RECURSIVE pdf_filter(_)
pdf_filter(names) ==
    IF names = <<>> THEN <<>>
    ELSE (IF is_pdf(names[1]) THEN <<names[1]>> ELSE <<>>) \o pdf_filter(Tail(names))

\* one name for every processed text
processed_blob_name_fixed(name) == <<"processed", ".txt">>

\* line 321: pdf_blob_name + ".txt"
processed_blob_name(name) == name \o <<".txt">>

\* what analyse_document_with_di can return for a PDF: its text, or "" when
\* nothing was extracted or the analysis failed
ProcessedContents(name) == {<<>>, <<"text of">> \o name}

\* the blobs of the source container: two PDFs and another file
PdfSourceNames == {<<"a", ".pdf">>, <<"b", ".PDF">>, <<"notes", ".docx">>}

PdfSourceContainer == [n \in PdfSourceNames |-> <<"document">>]

\* lines 297-302: the source container is listed, the PDFs are kept; with
\* none the function returns True
PreprocessList ==
    /\ prePc = "call"
    /\ \E ok \in BOOLEAN :
        \E listing \in list_blobs_async(PdfSourceContainer, ok) :
            /\ pdf_blob_names' = pdf_filter(listing)
            /\ prePc' = IF pdf_filter(listing) = <<>> THEN "done" ELSE "loop"
    /\ next_pdf' = 1
    /\ UNCHANGED <<processed, coreVars, geoVars, reconVars, tableVars,
                   routeVars, sourceVars, ioVars, archVars>>

\* what the loop goes on to after the file at index i: the next file, or
\* the return of True when i was the last one (lines 326-327)
after_file(names, i) == IF i < Len(names) THEN "loop" ELSE "done"

\* a failed upload logged and the loop going on
after_upload_logged_only(names, i, ok) == after_file(names, i)

\* lines 322 and 328-330: after the upload of the text of the file at index
\* i the loop goes on; an upload that raises ends the function, which
\* returns False
after_upload(names, i, ok) ==
    IF ok THEN after_file(names, i) ELSE "failed"

\* lines 304-330: one iteration of the loop; a text that is not empty is
\* uploaded, and an upload that fails ends the function (lines 328-330)
PreprocessFile ==
    /\ prePc = "loop"
    /\ next_pdf <= Len(pdf_blob_names)
    /\ \E processed_content \in ProcessedContents(pdf_blob_names[next_pdf]),
          ok \in BOOLEAN :
        LET name == processed_blob_name(pdf_blob_names[next_pdf])
        IN  IF processed_content = <<>>
            THEN /\ UNCHANGED <<processed, writes>>
                 /\ prePc' = after_file(pdf_blob_names, next_pdf)
            ELSE /\ writes' = logged(writes, PROCESSED_BLOB_CONTAINER, name)
                 /\ processed' = IF ok THEN upload_blob_async(processed, name, processed_content)
                                 ELSE processed
                 /\ prePc' = after_upload(pdf_blob_names, next_pdf, ok)
    /\ next_pdf' = next_pdf + 1
    /\ UNCHANGED <<pdf_blob_names, state, iteration, rounds, feedback, summary,
                   task, store, parseVars, mergeVars, geoVars, reconVars,
                   tableVars, routeVars, sourceVars, ioVars, archVars>>

\* a step of a section pipeline while the preprocessing is under way
PipelineStep ==
    /\ Next
    /\ UNCHANGED preVars

RunInit ==
    /\ ParseIdle
    /\ PipeInit
    /\ store = EmptyContainer
    /\ MergeIdle
    /\ GeoIdle
    /\ ReconIdle
    /\ TableIdle
    /\ RouteIdle
    /\ SourcesIdle
    /\ IoIdle
    /\ pdf_blob_names = <<>>
    /\ next_pdf = 0
    /\ processed = EmptyContainer
    /\ prePc = "call"
    /\ ArchIdle

RunNext ==
    \/ PipelineStep
    \/ PreprocessList
    \/ PreprocessFile

RunSpec == RunInit /\ [][RunNext]_vars

----------------------------------------------------------------------------
(* archive_run_artifacts: the source documents, the final documents and    *)
(* the outputs are copied into the archive container, then the log files   *)
(* are uploaded.                                                           *)

\* the run_id of the enumerated runs
RunId == "run-1"

\* f"{run_id}/source_docs/{blob_name}"
source_dest_blob_name(run_id, blob_name) == <<run_id, "/source_docs/">> \o blob_name

\* line 259: f"{run_id}/outputs/{blob_name}" for a final document
final_dest_blob_name(run_id, blob_name) == <<run_id, "/outputs/">> \o blob_name

\* line 266: f"{run_id}/outputs/{blob_name}" for an output
output_dest_blob_name(run_id, blob_name) == <<run_id, "/outputs/">> \o blob_name

\* f"{run_id}/logs/{log_file}"
log_dest_blob_name(run_id, log_file) == <<run_id, "/logs/">> \o log_file

\* copy_blob_async from one container to another when the copy starts: the
\* destination blob holds the data of the source blob
copy_across(source_container, source_blob_name, dest_container, dest_blob_name) ==
    [n \in DOMAIN dest_container \cup {dest_blob_name} |->
        IF n = dest_blob_name THEN source_container[source_blob_name]
        ELSE dest_container[n]]

\* the container a phase of the archiving reads
container_of(phase) ==
    CASE phase = "source" -> source_docs
      [] phase = "final"  -> final_docs
      [] phase = "output" -> store

\* the destination name a phase gives to a blob
dest_of(phase, blob_name) ==
    CASE phase = "source" -> source_dest_blob_name(RunId, blob_name)
      [] phase = "final"  -> final_dest_blob_name(RunId, blob_name)
      [] phase = "output" -> output_dest_blob_name(RunId, blob_name)

\* the phases in the order of lines 248-267, and the log files after them
after_phase(phase) ==
    CASE phase = "source" -> "final"
      [] phase = "final"  -> "output"
      [] phase = "output" -> "logs"

ArchivePhases == {"source", "final", "output"}

\* archivePc while a phase lists its container and while it copies
listing(phase) == <<"list", phase>>

copying(phase) == <<"copy", phase>>

\* the position after a listing or a copy that leaves rest to be copied
after_copy(phase, rest) ==
    IF rest # <<>> THEN copying(phase)
    ELSE IF after_phase(phase) = "logs" THEN <<"logs">>
    ELSE listing(after_phase(phase))

\* lines 250, 257, 264: a container is listed; a failed listing is the
\* empty list
ArchiveList ==
    /\ \E phase \in ArchivePhases :
        /\ archivePc = listing(phase)
        /\ \E ok \in BOOLEAN :
            \E names \in list_blobs_async(container_of(phase), ok) :
                /\ to_copy' = names
                /\ archivePc' = after_copy(phase, names)
    /\ UNCHANGED <<source_docs, final_docs, archive, coreVars, geoVars,
                   reconVars, tableVars, routeVars, sourceVars, ioVars, preVars>>

\* lines 251-253, 258-260, 265-267: the next blob of the listing is copied;
\* a copy that fails is logged and the loop goes on
ArchiveCopy ==
    /\ \E phase \in ArchivePhases :
        /\ archivePc = copying(phase)
        /\ \E ok \in BOOLEAN :
            archive' = IF ok
                       THEN copy_across(container_of(phase), Head(to_copy),
                                        archive, dest_of(phase, Head(to_copy)))
                       ELSE archive
        /\ to_copy' = Tail(to_copy)
        /\ archivePc' = after_copy(phase, Tail(to_copy))
    /\ UNCHANGED <<source_docs, final_docs, coreVars, geoVars, reconVars,
                   tableVars, routeVars, sourceVars, ioVars, preVars>>

\* the log files of the run: none or one
LogFiles == {<<>>, <<(<<"run.log">>)>>}

\* lines 269-278: the log files of the run are uploaded; an upload that
\* raises is caught at line 279
ArchiveLogs ==
    /\ archivePc = <<"logs">>
    /\ \E log_files \in LogFiles, ok \in BOOLEAN :
        archive' = IF log_files # <<>> /\ ok
                   THEN upload_blob_async(archive,
                            log_dest_blob_name(RunId, log_files[1]), <<"log data">>)
                   ELSE archive
    /\ archivePc' = <<"done">>
    /\ UNCHANGED <<source_docs, final_docs, to_copy, coreVars, geoVars,
                   reconVars, tableVars, routeVars, sourceVars, ioVars, preVars>>

\* the data of a blob names the container and the blob it is stored in
ContainersOf(container_name, names) ==
    { [n \in S |-> <<container_name>> \o n] : S \in SUBSET names }

\* the containers at the end of a run: source PDFs, the final document, and
\* the drafts and the merged document in the output container
ArchiveInit ==
    /\ ParseIdle
    /\ PipeInit
    /\ MergeIdle
    /\ GeoIdle
    /\ ReconIdle
    /\ TableIdle
    /\ RouteIdle
    /\ SourcesIdle
    /\ IoIdle
    /\ PreIdle
    /\ source_docs \in ContainersOf("source", {<<"a", ".pdf">>, <<"b", ".PDF">>})
    /\ final_docs \in ContainersOf("final", {FINAL_DOCUMENT_FILENAME})
    /\ store \in ContainersOf("output", {output_blob_name(1, 1), FINAL_DOCUMENT_FILENAME})
    /\ archive = EmptyContainer
    /\ to_copy = <<>>
    /\ archivePc = listing("source")

ArchiveNext ==
    \/ ArchiveList
    \/ ArchiveCopy
    \/ ArchiveLogs

ArchiveSpec == ArchiveInit /\ [][ArchiveNext]_vars

----------------------------------------------------------------------------
(* Properties of the section pipeline, checked under Spec and FairSpec.    *)

\* a summary with critical = 0 and standard = 0
ZeroIssues(c) ==
    /\ "critical" \in DOMAIN c
    /\ "standard" \in DOMAIN c
    /\ c["critical"] = 0
    /\ c["standard"] = 0

\* a validation of section s has just been decided
Decided(s) == state[s] = "AwaitingValidation" /\ state'[s] # "AwaitingValidation"

\* Accepted exactly on critical = 0 and standard = 0, Correcting otherwise,
\* a missing report (the forced-retry sentinel) included
DecisionRule(s) ==
    /\ state'[s] = (IF ZeroIssues(summary'[s]) THEN "Accepted" ELSE "Correcting")
    /\ feedback'[s] = <<>> => (summary'[s]["critical"] = 99 /\ state'[s] = "Correcting")

\* the writer produced iteration N+1 from the report and iteration N's
\* content, stored it, and the section is back in AwaitingValidation
CorrectionProduced(s) ==
    /\ state'[s] = "AwaitingValidation"
    /\ iteration'[s] = iteration[s] + 1
    /\ task'[s].kind = "correction"
    /\ task'[s].revision_request = feedback[s]
    /\ output_blob_name(s, iteration[s]) \in DOMAIN store
    /\ task'[s].previous_draft = store[output_blob_name(s, iteration[s])]
    /\ output_blob_name(s, iteration'[s]) \in DOMAIN store'

\* C1 as stated: after each validation the section is Accepted exactly when
\* the summary has critical = 0 and standard = 0; for every other summary it
\* moves to Correcting, the writer produces iteration N+1 from the report
\* and iteration N's content, and the section returns to AwaitingValidation.
C1_EveryRejectionIsCorrected ==
    [][\A s \in Sections :
        /\ Decided(s) => DecisionRule(s)
        /\ (state[s] = "Correcting" /\ state'[s] # "Correcting")
            => CorrectionProduced(s)]_vars

\* C1 amended: as stated while the round cap has not been reached; a section
\* that is Correcting with MaxRounds correction rounds run moves to
\* MaxRoundsExceeded and no further iteration is produced.
C1_RejectionIsCorrectedBelowCap ==
    [][\A s \in Sections :
        /\ Decided(s) => DecisionRule(s)
        /\ (state[s] = "Correcting" /\ state'[s] # "Correcting")
            => IF rounds[s] < MaxRounds
               THEN CorrectionProduced(s)
               ELSE /\ state'[s] = "MaxRoundsExceeded"
                    /\ iteration'[s] = iteration[s]
                    /\ store' = store]_vars

C1_Witness ==
    \E s \in Sections :
        /\ state[s] = "AwaitingValidation"
        /\ iteration[s] = 2
        /\ summary[s] = forced_retry
        /\ task[s].kind = "correction"
        /\ task[s].revision_request = feedback[s]
        /\ task[s].previous_draft = store[output_blob_name(s, 1)]
        /\ \E o \in Sections : state[o] = "Accepted" /\ ZeroIssues(summary[o])

\* C2: a section is Accepted only with critical = 0 and standard = 0 in the
\* summary of its latest validation; a section that ended without such a
\* summary is in MaxRoundsExceeded with exactly MaxRounds correction rounds
\* run; no section runs more than MaxRounds correction rounds.
C2_AcceptedOnlyOnAcceptingSummary ==
    \A s \in Sections :
        /\ state[s] = "Accepted" => ZeroIssues(summary[s])
        /\ state[s] = "MaxRoundsExceeded"
            => (~ZeroIssues(summary[s]) /\ rounds[s] = MaxRounds)
        /\ rounds[s] <= MaxRounds
        /\ iteration[s] <= MaxRounds + 1

C2_Witness ==
    \E s, o \in Sections :
        /\ state[s] = "MaxRoundsExceeded"
        /\ rounds[s] = MaxRounds
        /\ ~ZeroIssues(summary[s])
        /\ state[o] = "Accepted"
        /\ rounds[o] = MaxRounds

\* C3: when every writer and validator invocation returns, every section
\* reaches Accepted or MaxRoundsExceeded.
C3_EverySectionTerminates ==
    <>(\A s \in Sections : state[s] \in Terminal)

C3_Witness ==
    \A s \in Sections :
        /\ state[s] = "MaxRoundsExceeded"
        /\ summary[s] = forced_retry
        /\ iteration[s] = MaxRounds + 1

\* the iteration numbers of the stored drafts of section s
DraftIterations(s) ==
    { int(pattern_match(n).iteration) :
        n \in { m \in DOMAIN store :
                  pattern_match(m).found /\ int(pattern_match(m).section) = s } }

\* C4: the stored drafts of a section are numbered 1, 2, ... up to its
\* current iteration, each step adds at most the next number, the current
\* iteration is stored whenever the section awaits validation, and no step
\* removes or changes a stored draft.
C4_DraftsAppendOnly ==
    /\ [](\A s \in Sections :
            /\ DraftIterations(s) = 1..iteration[s]
            /\ state[s] = "AwaitingValidation"
                => output_blob_name(s, iteration[s]) \in DOMAIN store)
    /\ [][\A s \in Sections :
            /\ iteration'[s] \in {iteration[s], iteration[s] + 1}
            /\ \A n \in DOMAIN store :
                pattern_match(n).found => (n \in DOMAIN store' /\ store'[n] = store[n])]_vars

C4_Witness ==
    \E s \in Sections :
        /\ state[s] = "AwaitingValidation"
        /\ iteration[s] = 3
        /\ DraftIterations(s) = {1, 2, 3}
        /\ store[output_blob_name(s, 1)] # store[output_blob_name(s, 3)]

----------------------------------------------------------------------------
(* Properties of the feedback parser, checked under ParseSpec.             *)

\* the report is empty or, after leading whitespace, begins with ERROR:
EmptyOrError(content) ==
    \/ content = <<>>
    \/ \E n \in 1..Len(content) :
        /\ \A k \in 1..(n - 1) : content[k] = "WS"
        /\ content[n] = "ERROR"
        /\ n < Len(content)
        /\ content[n + 1] = ":"

\* a start marker is followed, somewhere, by an end marker
HasRegion(content) ==
    \E a, b \in 1..Len(content) :
        a < b /\ content[a] = "START" /\ content[b] = "END"

\* scanning the summary region raises: a counted key carries a number that
\* int() rejects
ParsingRaises(content) ==
    /\ ~EmptyOrError(content)
    /\ HasRegion(content)
    /\ loop_raises(found_issues(summary_match(content).group, 1))

C6_SentinelHasStandard ==
    (parsePc = "return" /\ EmptyOrError(feedback_content))
    => counts = [critical |-> 99, standard |-> 99]

\* C7: a non-empty report that does not begin with ERROR: and holds no
\* start marker followed by an end marker yields critical = 0, standard = 0,
\* which the decision rule accepts.
C7_NoRegionYieldsZero ==
    (/\ parsePc = "return"
     /\ feedback_content # <<>>
     /\ ~EmptyOrError(feedback_content)
     /\ ~HasRegion(feedback_content))
    => (counts = [critical |-> 0, standard |-> 0] /\ acceptable(counts))

C7_Witness ==
    /\ parsePc = "return"
    /\ ~EmptyOrError(feedback_content)
    /\ ~HasRegion(feedback_content)
    /\ \E a \in 1..Len(feedback_content) :
        /\ feedback_content[a] = "START"
        /\ \E n \in 1..Len(found_issues(feedback_content, a)) :
            /\ key_in_counts(found_issues(feedback_content, a)[n].key)
            /\ ~int_raises(found_issues(feedback_content, a)[n].value)
            /\ int(found_issues(feedback_content, a)[n].value) > 0
    /\ counts = [critical |-> 0, standard |-> 0]

----------------------------------------------------------------------------
(* Properties of the merge, checked under MergeSpec.                       *)

\* the stored blobs whose names the draft pattern matches
DraftBlobs == {n \in DOMAIN store : pattern_match(n).found}

SectionOf(n) == int(pattern_match(n).section)

IterationOf(n) == int(pattern_match(n).iteration)

\* the section ids discovered among the stored drafts
DiscoveredSections == {SectionOf(n) : n \in DraftBlobs}

\* the scan has just run on a successful listing: all_blobs lists every
\* stored blob once and nothing has been downloaded or uploaded yet
Listed ==
    /\ mergePc \in {"gather", "done"}
    /\ completed = <<>>
    /\ full_content = <<>>
    /\ Len(all_blobs) = Cardinality(DOMAIN store)
    /\ DOMAIN store # {}

\* position of blob n in the listing
ListedAt(n) == CHOOSE k \in 1..Len(all_blobs) : all_blobs[k] = n

\* no two stored draft names parse to the same (section, iteration)
DistinctVersions ==
    \A n, m \in DraftBlobs :
        (SectionOf(n) = SectionOf(m) /\ IterationOf(n) = IterationOf(m)) => n = m

\* C8 as stated: for every section id the draft with the numerically
\* greatest iteration is selected, and the selection is the same for every
\* order in which the store lists the names.
C8_SelectionIndependentOfOrder ==
    Listed =>
        /\ DOMAIN latest_iterations = DiscoveredSections
        /\ \A n \in DraftBlobs : IterationOf(n) <= latest_iterations[SectionOf(n)][2]
        /\ \A o \in Orders(DOMAIN store) :
            scan_blobs(o, 1, NoLatest) = latest_iterations

\* C8 amended: for every section id a draft whose iteration is numerically
\* greatest is selected, the first listed of them when several names parse
\* to that iteration; the selected sections and iteration numbers are the
\* same for every listing order, and so are the selected names when no two
\* names parse to the same (section, iteration).
C8_GreatestIterationSelected ==
    Listed =>
        /\ DOMAIN latest_iterations = DiscoveredSections
        /\ \A sec \in DiscoveredSections :
            LET chosen == latest_iterations[sec][1]
            IN  /\ chosen \in DraftBlobs
                /\ SectionOf(chosen) = sec
                /\ IterationOf(chosen) = latest_iterations[sec][2]
                /\ \A n \in DraftBlobs :
                    SectionOf(n) = sec =>
                        /\ IterationOf(n) <= IterationOf(chosen)
                        /\ IterationOf(n) = IterationOf(chosen)
                            => ListedAt(chosen) <= ListedAt(n)
        /\ \A o \in Orders(DOMAIN store) :
            LET other == scan_blobs(o, 1, NoLatest)
            IN  /\ DOMAIN other = DOMAIN latest_iterations
                /\ \A sec \in DOMAIN other : other[sec][2] = latest_iterations[sec][2]
                /\ DistinctVersions => other = latest_iterations

C8_Witness ==
    /\ Listed
    /\ DistinctVersions
    /\ {output_blob_name(1, 2), output_blob_name(1, 10), output_blob_name(2, 1)}
           = DOMAIN store
    /\ ListedAt(output_blob_name(1, 10)) < ListedAt(output_blob_name(1, 2))
    /\ latest_iterations[1] = <<output_blob_name(1, 10), 10>>
    /\ latest_iterations[2] = <<output_blob_name(2, 1), 1>>

\* C9 as stated: merge goes on to produce a final document only when the
\* discovered section ids are exactly 1..TOTAL_SECTIONS, and fails for every
\* other set of ids.
C9_MergeOnlyOnExactSections ==
    /\ (mergePc \in {"gather", "upload"} \/ mergeResult = "True")
        => DiscoveredSections = 1..TOTAL_SECTIONS
    /\ (Listed /\ mergePc = "done" /\ DiscoveredSections # 1..TOTAL_SECTIONS)
        => mergeResult = "False"

\* C10: a merge that finds a number of sections other than TOTAL_SECTIONS
\* fails without writing, the container staying exactly as it was; and no
\* step of a merge, failing or successful, removes or changes a stored draft.
C10_FailedMergeWritesNothing ==
    [][/\ (mergePc' # "idle" /\ Cardinality(DiscoveredSections) # TOTAL_SECTIONS)
            => (store' = store /\ mergePc' = "done" /\ mergeResult' = "False")
       /\ \A n \in DraftBlobs : n \in DOMAIN store' /\ store'[n] = store[n]]_vars

C10_Witness ==
    /\ Listed
    /\ mergePc = "done"
    /\ mergeResult = "False"
    /\ DiscoveredSections = {1}
    /\ {output_blob_name(1, 1), output_blob_name(1, 2)} \subseteq DOMAIN store
    /\ FINAL_DOCUMENT_FILENAME \notin DOMAIN store
    /\ \A n \in DOMAIN store : store[n] = <<"draft of">> \o n

\* the completed retrieval of blob n
RetrievalOf(n) ==
    completed[CHOOSE c \in 1..Len(completed) : completed[c].blob_name = n]

\* the k-th smallest of the selected section ids
SectionAtRank(k) ==
    CHOOSE sec \in DOMAIN latest_iterations :
        Cardinality({t \in DOMAIN latest_iterations : t <= sec}) = k

\* the selected draft of the k-th smallest section id
WinnerAtRank(k) == latest_iterations[SectionAtRank(k)][1]

\* C11: on a successful merge the final document is, whatever the order in
\* which the concurrent retrievals finished, the retrieved texts joined in
\* ascending section order with the separator between consecutive sections;
\* a retrieved text is the winning draft's content (the empty text for a
\* retrieval that failed).
C11_MergedInSectionOrder ==
    mergeResult = "True" =>
        LET n == Cardinality(DOMAIN latest_iterations)
            retrieved == [k \in 1..n |->
                IF RetrievalOf(WinnerAtRank(k)).ok
                THEN store[WinnerAtRank(k)] ELSE <<>>]
        IN  /\ Len(completed) = n
            /\ store[FINAL_DOCUMENT_FILENAME] = join(retrieved)
            /\ (n = 2 /\ \A c \in 1..n : completed[c].ok)
                => store[FINAL_DOCUMENT_FILENAME]
                      = store[WinnerAtRank(1)] \o <<"SEP">> \o store[WinnerAtRank(2)]

C11_Witness ==
    /\ mergeResult = "True"
    /\ {output_blob_name(1, 2), output_blob_name(1, 10), output_blob_name(2, 1)}
           = DOMAIN store \ {FINAL_DOCUMENT_FILENAME}
    /\ Len(completed) = 2
    /\ completed[1].blob_name = output_blob_name(2, 1)
    /\ completed[2].blob_name = output_blob_name(1, 10)
    /\ \A c \in 1..2 : completed[c].ok
    /\ store[FINAL_DOCUMENT_FILENAME]
          = <<"draft of">> \o output_blob_name(1, 10) \o <<"SEP">>
            \o <<"draft of">> \o output_blob_name(2, 1)

----------------------------------------------------------------------------
(* Properties of the geometry classifier, checked under GeometrySpec.      *)

\* the edges of an upright rectangle, read off its corners
Left(polygon) == polygon[1]

Right(polygon) == polygon[3]

Top(polygon) == polygon[2]

Bottom(polygon) == polygon[6]

\* the x-intervals and the y-intervals of two boxes strictly intersect
StrictlyIntersect(a, b) ==
    /\ Left(a) < Right(b)
    /\ Right(a) > Left(b)
    /\ Top(a) < Bottom(b)
    /\ Bottom(a) > Top(b)

\* C12: _is_element_in_regions returns true exactly when some table region
\* on the page of the element has a box whose x-interval and y-interval
\* both strictly intersect the element's box; regions on another page never
\* make it true.
C12_TrueExactlyOnSamePageOverlap ==
    in_regions # "pending" =>
        (in_regions = "True") =
            (/\ element.bounding_regions # <<>>
             /\ \E k \in 1..Len(all_table_regions) :
                 /\ all_table_regions[k].page_number
                       = element.bounding_regions[1].page_number
                 /\ StrictlyIntersect(element.bounding_regions[1].polygon,
                                      all_table_regions[k].polygon))

\* true although the first table region, on another page, covers the same
\* box and the second one only touches the element's edge
C12_Witness ==
    /\ in_regions = "True"
    /\ Len(all_table_regions) = 2
    /\ element.bounding_regions[1].page_number = 1
    /\ all_table_regions[1].page_number = 2
    /\ all_table_regions[1].polygon = element.bounding_regions[1].polygon
    /\ all_table_regions[2].page_number = 1
    /\ element.bounding_regions[1].polygon = Rectangle(0, 2, 0, 1)
    /\ all_table_regions[2].polygon = Rectangle(1, 2, 0, 2)

----------------------------------------------------------------------------
(* Properties of the reconstruction, checked under AnalyseSpec.            *)

\* the layout path has returned its output
LayoutReturned == analysePc = "return" /\ result.documents = <<>>

\* the item of the result that an output element was made from
SourceOf(e) ==
    IF e.type = "table" THEN result.tables[e.content[2]]
    ELSE result.paragraphs[e.content[2]]

\* the reading-order key of an item: page and top edge of its first box
ReadingOrderKey(item) ==
    <<item.bounding_regions[1].page_number, Top(item.bounding_regions[1].polygon)>>

OverlapsATable(k) ==
    \E tb \in 1..Len(result.tables) :
        \E r \in 1..Len(result.tables[tb].bounding_regions) :
            LET tr == result.tables[tb].bounding_regions[r]
                pr == result.paragraphs[k].bounding_regions[1]
            IN  /\ tr.page_number = pr.page_number
                /\ StrictlyIntersect(pr.polygon, tr.polygon)

\* how many times an item is written to the output
Emitted(type, k) ==
    Cardinality({i \in 1..Len(all_elements) :
        all_elements[i].type = type /\ all_elements[i].content = <<type, k>>})

\* C14: in the output of the layout path a paragraph that strictly overlaps
\* a table region on its page does not appear, every other paragraph
\* appears exactly once, and every table appears exactly once.
C14_OverlappingParagraphsDropped ==
    LayoutReturned =>
        /\ \A k \in 1..Len(result.paragraphs) :
            Emitted("paragraph", k) = (IF OverlapsATable(k) THEN 0 ELSE 1)
        /\ \A k \in 1..Len(result.tables) : Emitted("table", k) = 1
        /\ Len(all_elements) =
              Len(result.tables)
              + Cardinality({k \in 1..Len(result.paragraphs) : ~OverlapsATable(k)})

\* the first paragraph overlaps the second table only and is dropped, the
\* second paragraph touches a table's edge and is kept
C14_Witness ==
    /\ LayoutReturned
    /\ Len(result.tables) = 2
    /\ Len(result.paragraphs) = 2
    /\ ~(\E r \in 1..Len(result.tables[1].bounding_regions) :
           LET tr == result.tables[1].bounding_regions[r]
               pr == result.paragraphs[1].bounding_regions[1]
           IN  tr.page_number = pr.page_number
               /\ StrictlyIntersect(pr.polygon, tr.polygon))
    /\ OverlapsATable(1)
    /\ ~OverlapsATable(2)
    /\ result.paragraphs[2].bounding_regions[1].polygon = Rectangle(0, 2, 2, 3)
    /\ result.tables[2].bounding_regions[1].polygon = Rectangle(1, 2, 0, 2)
    /\ Emitted("paragraph", 1) = 0
    /\ Emitted("paragraph", 2) = 1
    /\ Len(all_elements) = 3

----------------------------------------------------------------------------
(* Properties of the table formatter, checked under FormatSpec.            *)

\* a content without its leading and trailing spaces and line breaks, the
\* line breaks left inside turned into spaces
RECURSIVE Trimmed(_)
Trimmed(content) ==
    IF content = <<>> THEN <<>>
    ELSE IF content[1] \in {"NL", "WS"} THEN Trimmed(Tail(content))
    ELSE IF content[Len(content)] \in {"NL", "WS"}
         THEN Trimmed(SubSeq(content, 1, Len(content) - 1))
    ELSE [k \in 1..Len(content) |-> IF content[k] = "NL" THEN "WS" ELSE content[k]]

\* the positions in table.cells of the cells with index (r, c)
CellsAt(r, c) ==
    {k \in 1..Len(table.cells) :
        table.cells[k].row_index = r /\ table.cells[k].column_index = c}

\* C15: the grid has row_count rows of column_count entries; the entry at
\* (r, c) is the trimmed content of the last cell with that index, the
\* empty string when no cell has it; cells with an index outside the grid
\* add and change nothing.
C15_GridHoldsLastCellInBounds ==
    formatPc = "return" =>
        /\ DOMAIN grid = 0..(table.row_count - 1)
        /\ \A r \in DOMAIN grid :
            /\ DOMAIN grid[r] = 0..(table.column_count - 1)
            /\ \A c \in DOMAIN grid[r] :
                grid[r][c] =
                    IF CellsAt(r, c) = {} THEN <<>>
                    ELSE Trimmed(table.cells[max(CellsAt(r, c))].content)

\* a cell outside the grid, then two cells with the same index: the later
\* one is the entry
C15_Witness ==
    /\ formatPc = "return"
    /\ table.row_count = 2
    /\ table.column_count = 1
    /\ Len(table.cells) = 3
    /\ table.cells[1].column_index = 1
    /\ table.cells[1].row_index = 0
    /\ CellsAt(1, 0) = {2, 3}
    /\ table.cells[2].content = <<"a">>
    /\ table.cells[3].content = <<"NL", "b", "NL", "c", "WS">>
    /\ grid[1][0] = <<"b", "WS", "c">>
    /\ grid[0][0] = <<>>

----------------------------------------------------------------------------
(* Properties of the router, checked under RouteSpec.                      *)

\* the file name in lowercase with every token that is not a letter or a
\* digit removed
RECURSIVE Sanitised(_)
Sanitised(name) ==
    IF name = <<>> THEN <<>>
    ELSE (CASE name[1] \in {"a", "A"} -> <<"a">>
            [] name[1] \in {"b", "B"} -> <<"b">>
            [] name[1] = "_" -> <<>>
            [] OTHER -> <<name[1]>>)
         \o Sanitised(Tail(name))

\* the positions of the declared items whose keyword the sanitised name
\* contains
Matching ==
    {k \in 1..Len(AZURE_DI_MODEL_IDS) :
        contains(Sanitised(pdf_blob_name), AZURE_DI_MODEL_IDS[k][1])}

\* C16: the router returns the model of the first declared keyword that the
\* sanitised file name contains, and the default model when it contains
\* none; the keywords are the keys of AZURE_DI_MODEL_IDS, "default" among
\* them.
C16_FirstDeclaredKeywordWins ==
    routePc = "return" =>
        model_id_to_use =
            IF Matching = {} THEN ModelOf(DefaultKey)
            ELSE AZURE_DI_MODEL_IDS[min(Matching)][2]

\* "A_b" is sanitised to "ab" and contains the keywords "b" and "ab"; "b",
\* declared first, wins
C16_Witness ==
    /\ routePc = "return"
    /\ pdf_blob_name = <<"A", "_", "b">>
    /\ Len(AZURE_DI_MODEL_IDS) = 3
    /\ AZURE_DI_MODEL_IDS[1][1] = <<"b">>
    /\ AZURE_DI_MODEL_IDS[2][1] = <<"a", "b">>
    /\ AZURE_DI_MODEL_IDS[3][1] = DefaultKey
    /\ Matching = {1, 2}
    /\ model_id_to_use = ModelOf(<<"b">>)

----------------------------------------------------------------------------
(* Properties of the source corpus, checked under SourcesSpec.             *)

\* the positions in the listing of the files that are not excluded
NonExcluded ==
    {k \in 1..Len(blob_names) : ~is_excluded(blob_names[k], exclude_files)}

\* the files from position k on, each not excluded one wrapped in its
\* markers around the text its retrieval gave: the blob's text, or the
\* empty text where the retrieval failed
RECURSIVE Wrapped(_, _)
Wrapped(k, failed) ==
    IF k > Len(blob_names) THEN <<>>
    ELSE (IF k \in NonExcluded
          THEN start_of_file(blob_names[k])
               \o (IF k \in failed THEN <<>> ELSE sources[blob_names[k]])
               \o end_of_file(blob_names[k])
          ELSE <<>>)
         \o Wrapped(k + 1, failed)

\* C17: at most one retrieval is running at any time, and the corpus
\* returned for a non-empty listing holds exactly the files that are not
\* excluded, each once, wrapped in its START/END markers, in listing order.
C17_CorpusInListingOrder ==
    /\ Cardinality(downloading) <= 1
    /\ (sourcesPc = "done" /\ blob_names # <<>>) =>
          \E failed \in SUBSET NonExcluded : corpus = Wrapped(1, failed)

\* two files kept and one left out between them
C17_Witness ==
    /\ sourcesPc = "done"
    /\ Len(blob_names) = 3
    /\ NonExcluded = {1, 3}
    /\ blob_names[1] = <<"dir/", "b", ".txt">>
    /\ blob_names[3] = <<"9", ".txt">>
    /\ corpus = start_of_file(blob_names[1]) \o sources[blob_names[1]]
                \o end_of_file(blob_names[1])
                \o start_of_file(blob_names[3]) \o sources[blob_names[3]]
                \o end_of_file(blob_names[3])

----------------------------------------------------------------------------
(* Properties of the blob helpers on a failing store, checked under        *)
(* StoreSpec.                                                              *)

\* C18: a failing list, download, copy or bulk delete returns to its caller
\* (the empty list, the empty string, empty bytes, nothing), and the caller
\* goes on; a failing upload, and only that, raises and ends the caller's
\* step.
C18_OnlyUploadRaises ==
    caller # "calling" =>
        /\ io_raised = (io_op = "upload_blob_async" /\ io_failed)
        /\ (caller = "aborted") = io_raised
        /\ (caller = "continues") = ~io_raised
        /\ io_failed =>
            io_return =
                CASE io_op = "list_blobs_async" -> [kind |-> "list", value |-> <<>>]
                  [] io_op = "download_blob_as_text_async" -> [kind |-> "text", value |-> <<>>]
                  [] io_op = "download_blob_as_bytes_async" -> [kind |-> "bytes", value |-> <<>>]
                  [] io_op = "copy_blob_async" -> [kind |-> "None"]
                  [] io_op = "clear_blob_container_async" -> [kind |-> "None"]
                  [] OTHER -> NoReturn

\* an upload failed on a container that holds blobs: it raised, the caller's
\* step ended
C18_Witness ==
    /\ io_op = "upload_blob_async"
    /\ io_failed
    /\ io_raised
    /\ caller = "aborted"
    /\ DOMAIN store # {}

----------------------------------------------------------------------------
(* Properties of the writes of a run, checked under RunSpec.               *)

\* the (section, iteration) pairs the pipelines have reached
ReachedIterations ==
    {p \in Sections \X (1..(MaxRounds + 1)) : p[2] <= iteration[p[1]]}

\* the keys of the drafts and the reports of the iterations reached
KeysOfSections ==
    {<<OUTPUT_BLOB_CONTAINER, output_blob_name(p[1], p[2])>> : p \in ReachedIterations}
        \cup {<<OUTPUT_BLOB_CONTAINER, feedback_blob_name(p[1], p[2])>> : p \in ReachedIterations}

\* the keys of the processed texts of the PDFs the loop has been through
KeysOfFiles ==
    {<<PROCESSED_BLOB_CONTAINER, processed_blob_name(pdf_blob_names[j])>> :
        j \in {i \in 1..Len(pdf_blob_names) : i < next_pdf}}

\* C19: whatever the interleaving of the section pipelines and the
\* preprocessing, every (container, name) key is the target of at most one
\* upload of the run: a key of the output container is the draft or the
\* report of one (section, iteration), a key of the processed container is
\* the text of one source file.
C19_EveryKeyWrittenOnce ==
    /\ \A k \in DOMAIN writes : writes[k] = 1
    /\ DOMAIN writes \subseteq KeysOfSections \cup KeysOfFiles

\* both sections have saved a second draft and two reports while two
\* processed texts were uploaded
C19_Witness ==
    /\ \A s \in Sections :
        /\ <<OUTPUT_BLOB_CONTAINER, output_blob_name(s, 2)>> \in DOMAIN writes
        /\ <<OUTPUT_BLOB_CONTAINER, feedback_blob_name(s, 2)>> \in DOMAIN writes
    /\ Cardinality({k \in DOMAIN writes : k[1] = PROCESSED_BLOB_CONTAINER}) = 2
    /\ prePc = "done"

----------------------------------------------------------------------------
(* Independence of the section pipelines, checked under Spec.              *)

\* the pipeline state of section s
SectionState(s) ==
    <<state[s], iteration[s], rounds[s], feedback[s], summary[s], task[s]>>

\* blob name n is a draft or a report of section s
BlobOfSection(n, s) ==
    /\ Len(n) > Len(str(s)) + 1
    /\ n[1] \in {"output_s", "feedback_s"}
    /\ SubSeq(n, 2, Len(str(s)) + 1) = str(s)
    /\ n[Len(str(s)) + 2] = "_i"

\* a step changes the pipeline state of one section at most, and the blobs
\* it writes are drafts and reports of that section; no blob is removed
OneSectionMoves ==
    \E s \in Sections :
        /\ \A r \in Sections \ {s} : SectionState(r)' = SectionState(r)
        /\ \A n \in DOMAIN store : n \in DOMAIN store'
        /\ \A n \in DOMAIN store' :
            (n \notin DOMAIN store \/ store'[n] # store[n]) => BlobOfSection(n, s)

\* how many of the steps of section s can be taken
StepsEnabled(s) ==
    (IF ENABLED Draft(s) THEN 1 ELSE 0) + (IF ENABLED Validate(s) THEN 1 ELSE 0)
        + (IF ENABLED Correct(s) THEN 1 ELSE 0) + (IF ENABLED RoundCap(s) THEN 1 ELSE 0)

\* a section that has not ended has exactly one step to take, whatever the
\* other sections have come to; a section that has ended has none
OneStepAtATime ==
    \A s \in Sections :
        StepsEnabled(s) = IF state[s] \in Terminal THEN 0 ELSE 1

\* C20: the sections share no pipeline state (a step changes the state and
\* the blobs of one section only), a section has one step to take at a
\* time until it has ended, and a section whose writer and validator
\* invocations return reaches Accepted or MaxRoundsExceeded even when the
\* other sections stall for ever or have ended in MaxRoundsExceeded.
C20_SectionsProgressIndependently ==
    /\ [][OneSectionMoves]_vars
    /\ []OneStepAtATime
    /\ \A s \in Sections :
        WF_vars(SectionStep(s)) => <>(state[s] \in Terminal)

\* one section has ended in MaxRoundsExceeded, another one was accepted
\* after a correction round
C20_Witness ==
    \E s \in Sections, r \in Sections :
        /\ state[s] = "MaxRoundsExceeded"
        /\ state[r] = "Accepted"
        /\ rounds[r] = 1

----------------------------------------------------------------------------
(* Elements without area, checked under GeometrySpec.                      *)

\* the polygon of the element's first region is a point or a segment
Degenerate(elem) ==
    /\ elem.bounding_regions # <<>>
    /\ LET polygon == elem.bounding_regions[1].polygon
       IN  Left(polygon) = Right(polygon) \/ Top(polygon) = Bottom(polygon)

\* an element without area is never classified as inside a table region
C21_DegenerateNeverInTable ==
    (in_regions # "pending" /\ Degenerate(element)) => in_regions = "False"

\* C21: an element without area is classified as inside a table exactly
\* when its point or segment reaches the interior of a table region on its
\* page (the strict comparisons hold); on the edge of every such region, or
\* outside, it is kept.
C21_DegenerateInTableWhenInside ==
    (in_regions # "pending" /\ Degenerate(element)) =>
        (in_regions = "True") =
            (\E k \in 1..Len(all_table_regions) :
                /\ all_table_regions[k].page_number
                      = element.bounding_regions[1].page_number
                /\ StrictlyIntersect(element.bounding_regions[1].polygon,
                                     all_table_regions[k].polygon))

\* the point (1, 1) is classified as inside the table with the box from
\* (0, 0) to (2, 2)
C21_Witness ==
    /\ in_regions = "True"
    /\ element.bounding_regions[1].polygon = Rectangle(1, 1, 1, 1)
    /\ all_table_regions = <<[page_number |-> 1, polygon |-> Rectangle(0, 2, 0, 2)]>>

----------------------------------------------------------------------------
(* Elements without a bounding region, checked under AnalyseSpec.          *)

HasRegions(item) == item.bounding_regions # <<>>

\* C22: on the layout path the function returns its output without an
\* error; a paragraph without a bounding region is not in it, and every
\* paragraph with a region outside the tables and every table is in it once.
C22_UnboxedElementsSilentlyDropped ==
    (analysePc # "call" /\ result.documents = <<>>) =>
        /\ analysePc = "return"
        /\ \A k \in 1..Len(result.paragraphs) :
            Emitted("paragraph", k) =
                (IF HasRegions(result.paragraphs[k]) /\ ~OverlapsATable(k)
                 THEN 1 ELSE 0)
        /\ \A k \in 1..Len(result.tables) :
            Emitted("table", k) = (IF HasRegions(result.tables[k]) THEN 1 ELSE 0)

----------------------------------------------------------------------------
(* The block the table formatter returns, checked under FormatSpec.        *)

\* the pieces of a text between the occurrences of a separator token
RECURSIVE SplitAt(_, _)
SplitAt(text, sep) ==
    IF \A k \in 1..Len(text) : text[k] # sep THEN <<text>>
    ELSE LET at == CHOOSE k \in 1..Len(text) :
                       text[k] = sep /\ \A j \in 1..(k - 1) : text[j] # sep
         IN  <<SubSeq(text, 1, at - 1)>> \o SplitAt(SubSeq(text, at + 1, Len(text)), sep)

\* a line is the pipe-delimited row of the cell texts given
IsRowOf(line, texts) ==
    /\ Len(line) >= 2
    /\ line[1] = "| "
    /\ line[Len(line)] = " |"
    /\ SplitAt(SubSeq(line, 2, Len(line) - 1), " | ") = texts

\* the lines of a block: a title, the header from grid row 0, a separator
\* and a row for each remaining grid row, between a blank line before and
\* after
IsTableBlock(text) ==
    LET lines == SplitAt(text, "NL")
    IN  /\ Len(lines) = table.row_count + 5
        /\ lines[1] = <<>>
        /\ lines[2] = <<"### Table (Page ">>
                          \o str(table.bounding_regions[1].page_number) \o <<")">>
        /\ IsRowOf(lines[3], [c \in 1..table.column_count |-> grid[0][c - 1]])
        /\ IsRowOf(lines[4], [c \in 1..table.column_count |-> <<"---">>])
        /\ \A r \in 1..(table.row_count - 1) :
            IsRowOf(lines[4 + r], [c \in 1..table.column_count |-> grid[r][c - 1]])
        /\ lines[table.row_count + 4] = <<>>
        /\ lines[table.row_count + 5] = <<>>

\* C23: the block is empty when the declared row count or the declared
\* column count is zero, whatever the cells; otherwise it is a title line,
\* the header row from grid row 0, a separator row and one pipe-delimited
\* row per remaining grid row.
C23_EmptyBlockOrTable ==
    formatPc = "return" =>
        IF table.row_count = 0 \/ table.column_count = 0
        THEN markdown = <<>>
        ELSE IsTableBlock(markdown)

----------------------------------------------------------------------------
(* The keys the feedback parser counts, checked under ParseSpec.           *)

\* the text between the first start marker that has an end marker after it
\* and the first end marker after it
RegionOf(content) ==
    LET a == CHOOSE i \in 1..Len(content) :
                 /\ content[i] = "START"
                 /\ \E j \in (i + 1)..Len(content) : content[j] = "END"
                 /\ \A h \in 1..(i - 1) :
                     content[h] = "START" => \A j \in (h + 1)..Len(content) : content[j] # "END"
        b == CHOOSE j \in (a + 1)..Len(content) :
                 content[j] = "END" /\ \A h \in (a + 1)..(j - 1) : content[h] # "END"
    IN  SubSeq(content, a + 1, b - 1)

\* the region is a run of `key: integer` items of one word and one number
ItemsOnly(region) ==
    /\ Len(region) % 3 = 0
    /\ \A n \in 1..Len(region) :
        CASE n % 3 = 1 -> region[n] \in Keys
          [] n % 3 = 2 -> region[n] = ":"
          [] OTHER     -> region[n] \in Values

\* the positions of the items of the region whose key is k in any case
ItemsOf(region, k) ==
    {n \in 1..Len(region) : n % 3 = 1 /\ lower(region[n]) = k}

\* the number of the last item with key k, 0 when there is none
LastCount(region, k) ==
    IF ItemsOf(region, k) = {} THEN 0
    ELSE LET n == CHOOSE m \in ItemsOf(region, k) : \A o \in ItemsOf(region, k) : o <= m
         IN  IF region[n + 2] = "3" THEN 3 ELSE 0

\* an item with a counted key carries a number that int() rejects
RejectedNumber(region) ==
    \E k \in {"critical", "standard"} :
        \E n \in ItemsOf(region, k) : region[n + 2] = "HUGE"

\* The part of C24 that holds: when the region is read (the text is neither
\* empty nor an error report), the result has the two fields critical and
\* standard and no other; a count differs from 0 only if its key, in any case, stands before a colon in the region; and in a region
\* of `key: integer` items each count is the number of the last item with
\* that key, 0 when no item has it, whatever items with other keys the
\* region holds (all counts are 0 when a counted number is rejected).
CountsWhenRegionIsRead ==
    (/\ parsePc = "return"
     /\ ~EmptyOrError(feedback_content)
     /\ HasRegion(feedback_content)) =>
        LET region == RegionOf(feedback_content)
        IN  /\ DOMAIN counts = {"critical", "standard"}
            /\ \A k \in {"critical", "standard"} :
                counts[k] # 0 =>
                    \E n \in 1..(Len(region) - 1) :
                        lower(region[n]) = k /\ region[n + 1] = ":"
            /\ ItemsOnly(region) =>
                \A k \in {"critical", "standard"} :
                    counts[k] = IF RejectedNumber(region) THEN 0
                                ELSE LastCount(region, k)

\* C24: for every report that holds a delimited summary region, the result
\* of parse_feedback_and_count_issues has exactly the two fields critical
\* and standard.
C24_ResultHasCriticalAndStandard ==
    (parsePc = "return" /\ HasRegion(feedback_content)) =>
        DOMAIN counts = {"critical", "standard"}

----------------------------------------------------------------------------
(* Elements with equal reading-order keys, checked under AnalyseSpec.      *)

\* the place of an output element in the list built at lines 429-440
\* before the sort: the tables in the order of result.tables, then the
\* paragraphs in the order of result.paragraphs
ExtractionRank(e) ==
    IF e.type = "table" THEN e.content[2]
    ELSE Len(result.tables) + e.content[2]

\* C25: two output elements with equal (page, y) keys stand in the output
\* in the order in which they were extracted: tables in the order of the
\* result, paragraphs in the order of the result, a table before a
\* paragraph.
C25_TiesKeepExtractionOrder ==
    LayoutReturned =>
        \A i, j \in 1..Len(all_elements) :
            (/\ i < j
             /\ all_elements[i].page = all_elements[j].page
             /\ all_elements[i].y_pos = all_elements[j].y_pos)
                => ExtractionRank(all_elements[i]) < ExtractionRank(all_elements[j])

\* two paragraphs and a table, all with key (1, 0): the table next to the
\* paragraphs without overlapping them
C25_Witness ==
    /\ LayoutReturned
    /\ Len(all_elements) = 3
    /\ \A k \in 1..3 : all_elements[k].page = 1 /\ all_elements[k].y_pos = 0
    /\ [k \in 1..3 |-> all_elements[k].content]
          = <<(<<"table", 1>>), (<<"paragraph", 1>>), (<<"paragraph", 2>>)>>

----------------------------------------------------------------------------
(* The content of the final document, checked under MergeSpec.             *)

\* C26: a stored final document holds, for every section selected, the full
\* stored content of its winning draft: the stored drafts joined in
\* ascending section order, also when the retrieval of a winning draft
\* failed.
C26_FinalDocumentHoldsEveryWinner ==
    (mergeResult = "True" /\ DOMAIN latest_iterations = 1..TOTAL_SECTIONS) =>
        store[FINAL_DOCUMENT_FILENAME]
            = join([k \in 1..TOTAL_SECTIONS |-> store[latest_iterations[k][1]]])

----------------------------------------------------------------------------
(* The outcome of the preprocessing file by file, checked under RunSpec.   *)

\* the loop of preprocess_all_pdfs_async handles the file at next_pdf
FileHandled == prePc = "loop" /\ next_pdf' = next_pdf + 1

\* an upload to the processed container is made in this step
UploadMade ==
    \E k \in DOMAIN writes' :
        /\ k[1] = PROCESSED_BLOB_CONTAINER
        /\ (k \notin DOMAIN writes \/ writes'[k] # writes[k])

\* the loop goes on to the next file, or returns True after the last one
GoesOn ==
    prePc' = IF next_pdf < Len(pdf_blob_names) THEN "loop" ELSE "done"

\* C27: the files are handled one at a time. A file without content causes
\* no write and the loop goes on (returning True after the last file); a
\* written output is stored under the file's name plus ".txt" and the loop
\* goes on; a failed write ends the step with failure, after which no
\* further file is handled; and no step removes or changes an output
\* already written.
C27_FailedWriteStopsEmptyAnalysisDoesNot ==
    [][/\ FileHandled =>
            LET name == processed_blob_name(pdf_blob_names[next_pdf])
            IN  /\ ~UploadMade => (processed' = processed /\ GoesOn)
                /\ (UploadMade /\ name \in DOMAIN processed') =>
                        (DOMAIN processed' = DOMAIN processed \cup {name} /\ GoesOn)
                /\ (UploadMade /\ name \notin DOMAIN processed') =>
                        (processed' = processed /\ prePc' = "failed")
       /\ prePc = "failed" =>
            (prePc' = "failed" /\ next_pdf' = next_pdf /\ processed' = processed)
       /\ prePc' = "done" => next_pdf' = Len(pdf_blob_names') + 1
       /\ \A n \in DOMAIN processed :
            n \in DOMAIN processed' /\ processed'[n] = processed[n]]_vars

\* of two PDFs the first was written; the write of the second failed: the
\* step has failed and the first output is in place
C27_Witness ==
    /\ prePc = "failed"
    /\ Len(pdf_blob_names) = 2
    /\ next_pdf = 3
    /\ DOMAIN processed = {processed_blob_name(pdf_blob_names[1])}
    /\ <<PROCESSED_BLOB_CONTAINER, processed_blob_name(pdf_blob_names[2])>> \in DOMAIN writes

----------------------------------------------------------------------------
(* The destinations of the archived copies, checked under ArchiveSpec.     *)

\* C28: no archived copy is overwritten by the copy of another artifact:
\* a blob of the archive container keeps its data at every step of an
\* archival run (the data of a blob names the artifact it was copied from).
C28_NoArchivedCopyOverwritten ==
    [][\A n \in DOMAIN archive : archive'[n] = archive[n]]_vars

====
